---- MODULE Spec2Model ----
(***************************************************************************)
(* Tagged causal broadcast middleware (tcb): the graph engine, the         *)
(* vector-clock engine, their client facades and the dispatcher, as a      *)
(* state machine.  Peer ids are 0..n-1 as in the source; a Vec or a        *)
(* BitVec indexed by i in the source is a sequence indexed by i+1 here.    *)
(* A dot is the pair <<id, counter>>.  Payload bytes are not modelled:     *)
(* a node only records whether it holds a payload (Option<Vec<u8>>).       *)
(***************************************************************************)
EXTENDS Naturals, Sequences, FiniteSets, TLC

VARIABLES
    n,        \* peer_number: size of the group (peer_addresses.len() + 1)
    kind,     \* "graph" or "vv": which engine the group runs
    cli,      \* cli[p]: the client facade of peer p
    mq,       \* mq[p]: events the client of p has queued for its dispatcher
    net,      \* net[<<k, p>>]: wire messages in flight on the stream k -> p
    eng,      \* eng[p]: the engine owned by the dispatcher of p
    rd,       \* rd[p]: how many items of eng[p].client the client has taken
    sent,     \* history: dot -> [msg, seen] of every send() so far
    toAck,    \* toAck[p]: dots reported Stable to the client, not yet acked
    dup,      \* history: wire messages handed to a receive a second time
    su,       \* the threads of start_service of every peer (group startup)
    lc,       \* one peer's client, dispatcher, senders and the remote readers
    bs,       \* one batching sender thread (BufWriter counters, timeout)
    ck        \* the causality checker: its input traces and its verdict

vars == <<n, kind, cli, mq, net, eng, rd, sent, toAck, dup, su, lc, bs, ck>>

\* the variables of the engines, clients and dispatchers
group == <<n, kind, cli, mq, net, eng, rd, sent, toAck, dup>>

\* the variables of the transport threads, which the engine steps leave alone
aux == <<su, lc, bs, ck>>

\* the value of a transport variable in a run that does not exercise it
Parked == [state |-> "parked"]

(***************************************************************************)
(* Bounds of the model.                                                    *)
(***************************************************************************)
MaxMsgs == 3      \* total number of send() calls in a run
MaxPeers == 3     \* largest group size explored
MaxDups == 2      \* wire messages handed to receive a second time in a run

Peers == 0 .. (n - 1)

(***************************************************************************)
(* Small helpers for maps (HashMap) and sequences (Vec).                   *)
(***************************************************************************)
EmptyMap == [x \in {} |-> 0]

MapInsert(m, k, v) == [x \in (DOMAIN m) \cup {k} |-> IF x = k THEN v ELSE m[x]]

MapRemove(m, k) == [x \in (DOMAIN m) \ {k} |-> m[x]]

SeqContains(s, x) == \E i \in 1 .. Len(s) : s[i] = x

SeqToSet(s) == {s[i] : i \in 1 .. Len(s)}

Zeros(len) == [i \in 1 .. len |-> 0]

(***************************************************************************)
(* BitVec<u64>                                                             *)
(***************************************************************************)
BitsGrow(len, value) == [i \in 1 .. len |-> value]

BitsNone(b) == \A i \in 1 .. Len(b) : ~b[i]

(***************************************************************************)
(* Node (graph/middleware/node.rs)                                         *)
(***************************************************************************)
Node(dot) ==
    [dot |-> dot, stage |-> "SLT", bits |-> <<>>, payload |-> FALSE,
     context |-> <<>>, predecessors |-> <<>>, successors |-> <<>>]

(***************************************************************************)
(* ArrayMap (graph/middleware/dag.rs)                                      *)
(***************************************************************************)
ArrayMap_new(initial_capacity) ==
    [nodes |-> <<>>,
     available_indexes |-> [i \in 1 .. initial_capacity |-> initial_capacity - i]]

\* variant of push that always appends and never takes a free slot
ArrayMap_push_back(am, node) ==
    [am |-> [am EXCEPT !.nodes = Append(@, node)], index |-> Len(am.nodes)]

\* push returns the new arena and the index it issued
ArrayMap_push(am, node) ==
    LET k == Len(am.available_indexes) IN
    IF k > 0
    THEN LET index == am.available_indexes[k]
             rest == SubSeq(am.available_indexes, 1, k - 1)
         IN IF index < Len(am.nodes)
            THEN [am |-> [nodes |-> [am.nodes EXCEPT ![index + 1] = node],
                          available_indexes |-> rest],
                  index |-> index]
            ELSE [am |-> [nodes |-> Append(am.nodes, node),
                          available_indexes |-> rest],
                  index |-> index]
    ELSE [am |-> [nodes |-> Append(am.nodes, node), available_indexes |-> <<>>],
          index |-> Len(am.nodes)]

\* remove: the expect() fails when the Vec holds nothing at index
ArrayMap_remove_ok(am, index) == index < Len(am.nodes)

\* variant of remove that does not hand the slot back
ArrayMap_remove_leak(am, index) == am

ArrayMap_remove(am, index) ==
    [am EXCEPT !.available_indexes = Append(@, index)]

(***************************************************************************)
(* GRAPH engine (graph/middleware/graph.rs).  An engine is a record; an    *)
(* operation maps an engine to the engine after it.  client is the         *)
(* channel to the client: everything the engine ever sent on it.  A        *)
(* failed unwrap/expect or an index out of range sets panic: the           *)
(* dispatcher thread is gone and the engine handles nothing more.          *)
(***************************************************************************)
GRAPH_new(peer_index, peer_number, track) ==
    [G |-> ArrayMap_new(3 * peer_number),
     V |-> Zeros(peer_number),
     dot_to_index_map |-> EmptyMap,
     peer_number |-> peer_number,
     peer_index |-> peer_index,
     client |-> <<>>,
     track |-> track,
     panic |-> FALSE]

Panic(e) == [e EXCEPT !.panic = TRUE]

GNode(e, index) == e.G.nodes[index + 1]

\* variant of GRAPH_stable that takes every dot absent from the map as stable,
\* whatever V says
GRAPH_stable_absent(e, dot) == dot \notin DOMAIN e.dot_to_index_map

GRAPH_stable(e, dot) ==
    IF dot \in DOMAIN e.dot_to_index_map
    THEN dot[2] <= e.V[dot[1] + 1]
         /\ GNode(e, e.dot_to_index_map[dot]).stage = "STB"
    ELSE dot[2] <= e.V[dot[1] + 1]

RECURSIVE GRAPH_stabilize(_, _)
RECURSIVE StabilizePreds(_, _, _)
\* variant of stabilize that reports the dot before its predecessors
GRAPH_stabilize_first(e, msg_idx) ==
    StabilizePreds([e EXCEPT !.G.nodes[msg_idx + 1].stage = "STB",
                             !.client = Append(@, [type |-> "Stable",
                                                   dot |-> GNode(e, msg_idx).dot])],
                   GNode(e, msg_idx).predecessors, 1)

\* variant of stabilize that reports the dot to the client twice
GRAPH_stabilize_twice(e, msg_idx) ==
    LET e1 == StabilizePreds(e, GNode(e, msg_idx).predecessors, 1)
        stable == [type |-> "Stable", dot |-> GNode(e1, msg_idx).dot]
    IN IF e1.panic THEN e1
       ELSE [e1 EXCEPT !.G.nodes[msg_idx + 1].stage = "STB",
                       !.client = Append(Append(@, stable), stable)]

\* the loop of stabilize over the predecessors of msg_idx, from position i
StabilizePreds(e, pred_idxs, i) ==
    IF e.panic \/ i > Len(pred_idxs) THEN e
    ELSE LET p == pred_idxs[i] IN
         IF p >= Len(e.G.nodes) THEN Panic(e)
         ELSE IF GNode(e, p).stage # "STB"
              THEN StabilizePreds(GRAPH_stabilize(e, p), pred_idxs, i + 1)
              ELSE StabilizePreds(e, pred_idxs, i + 1)

GRAPH_stabilize(e, msg_idx) ==
    LET e1 == StabilizePreds(e, GNode(e, msg_idx).predecessors, 1) IN
    IF e1.panic THEN e1
    ELSE [e1 EXCEPT !.G.nodes[msg_idx + 1].stage = "STB",
                    !.client = Append(@, [type |-> "Stable",
                                          dot |-> GNode(e1, msg_idx).dot])]

RECURSIVE GRAPH_updatestability(_, _, _)
RECURSIVE UpdatePreds(_, _, _, _)
\* the loop of updatestability over the predecessors of msg_idx, from position i
UpdatePreds(e, j, pred_idxs, i) ==
    IF e.panic \/ i > Len(pred_idxs) THEN e
    ELSE LET p == pred_idxs[i] IN
         IF p >= Len(e.G.nodes) THEN Panic(e)
         ELSE LET node == GNode(e, p) IN
              IF node.stage # "STB"
              THEN IF j + 1 > Len(node.bits) THEN Panic(e)
                   ELSE IF node.bits[j + 1]
                        THEN LET e1 == [e EXCEPT !.G.nodes[p + 1].bits[j + 1] = FALSE] IN
                             IF BitsNone(GNode(e1, p).bits)
                             THEN UpdatePreds(GRAPH_stabilize(e1, p), j, pred_idxs, i + 1)
                             ELSE UpdatePreds(GRAPH_updatestability(e1, j, p),
                                              j, pred_idxs, i + 1)
                        ELSE UpdatePreds(e, j, pred_idxs, i + 1)
              ELSE UpdatePreds(e, j, pred_idxs, i + 1)

GRAPH_updatestability(e, j, msg_idx) ==
    UpdatePreds(e, j, GNode(e, msg_idx).predecessors, 1)

RECURSIVE RetainPreds(_, _, _, _)
\* the loop of deletestable: drop dot_graph_index from each successor's predecessors
RetainPreds(e, successors_indexes, i, dot_graph_index) ==
    IF e.panic \/ i > Len(successors_indexes) THEN e
    ELSE LET s == successors_indexes[i] IN
         IF s >= Len(e.G.nodes) THEN Panic(e)
         ELSE RetainPreds(
                [e EXCEPT !.G.nodes[s + 1].predecessors =
                              SelectSeq(@, LAMBDA idx : idx # dot_graph_index)],
                successors_indexes, i + 1, dot_graph_index)

GRAPH_deletestable(e, dot) ==
    IF dot \notin DOMAIN e.dot_to_index_map THEN Panic(e)
    ELSE LET dot_graph_index == e.dot_to_index_map[dot]
             e1 == RetainPreds(e, GNode(e, dot_graph_index).successors, 1,
                               dot_graph_index)
         IN IF e1.panic THEN e1
            ELSE IF ~ArrayMap_remove_ok(e1.G, dot_graph_index) THEN Panic(e1)
            ELSE [e1 EXCEPT !.G = ArrayMap_remove(@, dot_graph_index),
                            !.dot_to_index_map = MapRemove(@, dot)]

RECURSIVE GRAPH_deliver(_, _)
RECURSIVE DeliverSuccessors(_, _, _, _)
\* the loop of deliver over the successors of the delivered node, from position i
DeliverSuccessors(e, successors_graph_indexes, i, j) ==
    IF e.panic \/ i > Len(successors_graph_indexes) THEN e
    ELSE LET s == successors_graph_indexes[i] IN
         IF s >= Len(e.G.nodes) THEN Panic(e)
         ELSE IF j + 1 > Len(GNode(e, s).bits) THEN Panic(e)
         ELSE LET e1 == [e EXCEPT !.G.nodes[s + 1].bits[j + 1] = FALSE] IN
              IF BitsNone(GNode(e1, s).bits)
              THEN DeliverSuccessors(GRAPH_deliver(e1, s),
                                     successors_graph_indexes, i + 1, j)
              ELSE DeliverSuccessors(e1, successors_graph_indexes, i + 1, j)

\* variant of DeliveredBits that marks the sender instead of the peers still
\* to be heard from
DeliveredBits_sender(e, j) == [i \in 1 .. e.peer_number |-> i = j + 1]

\* the bit string of a node just delivered, stability tracking on
DeliveredBits(e, j) ==
    [i \in 1 .. e.peer_number |-> i # e.peer_index + 1 /\ i # j + 1]

\* variant of DeliverV that starts from a fresh vector
DeliverV_fresh(V, j, c) == [i \in 1 .. Len(V) |-> IF i = j + 1 THEN c ELSE 0]

\* V[j] = n at the delivery of dot (j, n)
DeliverV(V, j, c) == [V EXCEPT ![j + 1] = c]

\* a variant that leaves the delivered node in the arena
DeleteOnDeliver_never(track_causal_stability) == FALSE

\* deliver ends with deletestable when stability tracking is off
DeleteOnDeliver(track_causal_stability) == ~track_causal_stability

GRAPH_deliver(e, msg_graph_index) ==
    IF msg_graph_index >= Len(e.G.nodes) THEN Panic(e)
    ELSE
    LET delivered_node == GNode(e, msg_graph_index) IN
    IF ~delivered_node.payload THEN Panic(e)
    ELSE
    LET j == delivered_node.dot[1]
        c == delivered_node.dot[2]
        e1 == [e EXCEPT !.client = Append(@, [type |-> "Delivery",
                                              dot |-> delivered_node.dot,
                                              context |-> delivered_node.context]),
                        !.V = DeliverV(@, j, c)]
        e2 == IF e1.track
              THEN [e1 EXCEPT !.G.nodes[msg_graph_index + 1].stage = "DLV",
                              !.G.nodes[msg_graph_index + 1].bits = DeliveredBits(e1, j)]
              ELSE e1
        e3 == IF e2.track THEN GRAPH_updatestability(e2, j, msg_graph_index) ELSE e2
    IN IF e3.panic THEN e3
       ELSE LET e4 == DeliverSuccessors(e3, GNode(e3, msg_graph_index).successors, 1, j)
            IN IF e4.panic \/ ~DeleteOnDeliver(e4.track) THEN e4
               ELSE GRAPH_deletestable(e4, GNode(e4, msg_graph_index).dot)

RECURSIVE LinkSent(_, _, _, _, _)
\* the loop of dequeue over the non-stable context dots, from position i:
\* returns the engine and the predecessors' indexes
LinkSent(e, p_line, i, new_graph_index, predecessors_graph_indexes) ==
    IF i > Len(p_line) THEN [e |-> e, idxs |-> predecessors_graph_indexes]
    ELSE LET p == p_line[i] IN
         IF p \notin DOMAIN e.dot_to_index_map
         THEN [e |-> Panic(e), idxs |-> predecessors_graph_indexes]
         ELSE LET pred_graph_index == e.dot_to_index_map[p] IN
              LinkSent([e EXCEPT !.G.nodes[pred_graph_index + 1].successors =
                                     Append(@, new_graph_index)],
                       p_line, i + 1, new_graph_index,
                       Append(predecessors_graph_indexes, pred_graph_index))

\* the bit string of a node just sent: all ones but the sender's own position
SentBits(e, dot) == [i \in 1 .. e.peer_number |-> i # dot[1] + 1]

GRAPH_dequeue(e, message) ==
    LET e1 == [e EXCEPT !.V[message.dot[1] + 1] = message.dot[2]] IN
    IF ~e1.track THEN e1
    ELSE
    LET p_line == SelectSeq(message.context, LAMBDA p : ~GRAPH_stable(e1, p))
        new_node == [Node(message.dot) EXCEPT !.bits = SentBits(e1, message.dot),
                                              !.stage = "DLV"]
        pushed == ArrayMap_push(e1.G, new_node)
        new_graph_index == pushed.index
        e2 == [e1 EXCEPT !.G = pushed.am,
                         !.dot_to_index_map = MapInsert(@, message.dot, new_graph_index)]
        lk == LinkSent(e2, p_line, 1, new_graph_index, <<>>)
    IN IF lk.e.panic THEN lk.e
       ELSE GRAPH_updatestability(
              [lk.e EXCEPT !.G.nodes[new_graph_index + 1].predecessors = lk.idxs,
                           !.G.nodes[new_graph_index + 1].payload = TRUE,
                           !.G.nodes[new_graph_index + 1].context = message.context],
              lk.e.peer_index, new_graph_index)

\* a variant that takes every predecessor in the graph as not yet delivered
PredecessorPending_any(stage) == TRUE

\* receive sets the sender's bit for a predecessor whose stage is not DLV
PredecessorPending(stage) == stage # "DLV"

RECURSIVE LinkReceived(_, _, _, _, _, _)
\* the loop of receive over the non-stable context dots, from position i:
\* returns the engine, the bit string b and the predecessors' indexes
LinkReceived(e, p_line, i, received_message_index, b, predecessors_indexes) ==
    IF i > Len(p_line) THEN [e |-> e, b |-> b, idxs |-> predecessors_indexes]
    ELSE LET p_dot == p_line[i]
             known == p_dot \in DOMAIN e.dot_to_index_map
             pushed == ArrayMap_push(e.G, Node(p_dot))
             pred_index == IF known THEN e.dot_to_index_map[p_dot] ELSE pushed.index
             e1 == IF known THEN e
                   ELSE [e EXCEPT !.G = pushed.am,
                                  !.dot_to_index_map = MapInsert(@, p_dot, pred_index)]
             e2 == [e1 EXCEPT !.G.nodes[pred_index + 1].successors =
                                  Append(@, received_message_index)]
             pred_temp_node == GNode(e2, pred_index)
             b1 == IF PredecessorPending(pred_temp_node.stage)
                   THEN [b EXCEPT ![pred_temp_node.dot[1] + 1] = TRUE]
                   ELSE b
         IN LinkReceived(e2, p_line, i + 1, received_message_index, b1,
                         Append(predecessors_indexes, pred_index))

\* variant of the guard that lets every message in
ReceiveAny(e, message) == TRUE

\* the guard of receive on the version vector
ReceiveFresh(e, message) == e.V[message.dot[1] + 1] < message.dot[2]

\* variant of the guard that lets a message in whatever its node's stage
ReceiveStageAny(stage) == TRUE

\* the guard of receive on the stage of the message's node
ReceiveStageOk(stage) == stage # "RCV"

GRAPH_receive(e, message) ==
    IF ~ReceiveFresh(e, message) THEN e
    ELSE
    LET known == message.dot \in DOMAIN e.dot_to_index_map
        pushed == ArrayMap_push(e.G, Node(message.dot))
        received_message_index ==
            IF known THEN e.dot_to_index_map[message.dot] ELSE pushed.index
        e1 == IF known THEN e
              ELSE [e EXCEPT !.G = pushed.am,
                             !.dot_to_index_map =
                                 MapInsert(@, message.dot, received_message_index)]
    IN IF ~ReceiveStageOk(GNode(e1, received_message_index).stage) THEN e1
       ELSE
       LET p_line == SelectSeq(message.context, LAMBDA p : ~GRAPH_stable(e1, p))
           lk == LinkReceived(e1, p_line, 1, received_message_index,
                              BitsGrow(e1.peer_number, FALSE), <<>>)
           e2 == [lk.e EXCEPT !.G.nodes[received_message_index + 1].bits = lk.b,
                              !.G.nodes[received_message_index + 1].stage = "RCV",
                              !.G.nodes[received_message_index + 1].payload = TRUE,
                              !.G.nodes[received_message_index + 1].context =
                                  message.context,
                              !.G.nodes[received_message_index + 1].predecessors =
                                  lk.idxs]
       IN IF BitsNone(lk.b) THEN GRAPH_deliver(e2, received_message_index) ELSE e2

(***************************************************************************)
(* VersionVector (vv/structs/version_vector.rs)                            *)
(***************************************************************************)
VersionVector_new(length) == Zeros(length)

\* variant of compare_version_vectors that only looks at the sender's entry
compare_sender_entry_only(index, a, b) == b[index + 1] = a[index + 1] + 1

\* variant of compare_version_vectors that wants equality outside the
\* sender's entry
compare_equal_elsewhere(index, a, b) ==
    \A i \in 1 .. Len(a) :
        IF i # index + 1 THEN b[i] = a[i] ELSE b[i] = a[i] + 1

\* b is deliverable against a: b[index] = a[index] + 1 and b[i] <= a[i] elsewhere
compare_version_vectors(index, a, b) ==
    \A i \in 1 .. Len(a) :
        IF i # index + 1 THEN b[i] <= a[i] ELSE b[i] = a[i] + 1

equal(a, b) == a = b

\* greater[i] - lesser[i] on usize wraps (or aborts) when greater[i] < lesser[i]
dif_underflows(greater, lesser, length) ==
    \E i \in 1 .. length : greater[i] < lesser[i]

RECURSIVE dif_from(_, _, _, _)
dif_from(greater, lesser, length, i) ==
    IF i > length THEN <<>>
    ELSE (IF greater[i] > lesser[i]
          THEN [c \in 1 .. (greater[i] - lesser[i]) |-> <<i - 1, lesser[i] + c>>]
          ELSE <<>>)
         \o dif_from(greater, lesser, length, i + 1)

\* a variant that yields only the newest dot of each column
dif_newest(greater, lesser, length) ==
    SelectSeq([i \in 1 .. length |-> <<i - 1, greater[i]>>],
              LAMBDA d : greater[d[1] + 1] > lesser[d[1] + 1])

dif(greater, lesser, length) == dif_from(greater, lesser, length, 1)

(***************************************************************************)
(* VV engine (vv/middleware/version_vector.rs).  recompute_all is not a    *)
(* field of the program: it is FALSE in every engine of a group, and TRUE  *)
(* selects the simpler form of updatestability that recomputes every       *)
(* column minimum on every call.                                           *)
(***************************************************************************)
VV_new(peer_number, peer_index, track) ==
    [V |-> VersionVector_new(peer_number),
     R |-> VersionVector_new(peer_number),
     DQ |-> <<>>,
     M |-> [r \in 1 .. peer_number |-> VersionVector_new(peer_number)],
     M_entry_row_num |-> VersionVector_new(peer_number),
     SV |-> VersionVector_new(peer_number),
     SMap |-> EmptyMap,
     ctr |-> 0,
     peer_index |-> peer_index,
     client |-> <<>>,
     track |-> track,
     peer_number |-> peer_number,
     underflow |-> FALSE,
     panic |-> FALSE,
     recompute_all |-> FALSE]

RECURSIVE MinRow(_, _, _, _, _)
RECURSIVE MinRow_largest(_, _, _, _, _)
\* a variant of the inner loop that keeps the largest entry of the column
MinRow_largest(M, column, row, min, min_row_num) ==
    IF row > Len(M) - 1 THEN [min |-> min, min_row_num |-> min_row_num]
    ELSE IF M[row + 1][column + 1] > min
         THEN MinRow_largest(M, column, row + 1, M[row + 1][column + 1], row)
         ELSE MinRow_largest(M, column, row + 1, min, min_row_num)

\* the inner loop of calculateSV: rows row..peer_number-1 of one column
MinRow(M, column, row, min, min_row_num) ==
    IF row > Len(M) - 1 THEN [min |-> min, min_row_num |-> min_row_num]
    ELSE IF M[row + 1][column + 1] < min
         THEN MinRow(M, column, row + 1, M[row + 1][column + 1], row)
         ELSE MinRow(M, column, row + 1, min, min_row_num)

\* whether calculateSV recomputes this column for sender_id
OwnsColumn(e, column, sender_id) ==
    e.recompute_all \/ e.M_entry_row_num[column + 1] = sender_id

RECURSIVE CalcColumns(_, _, _, _)
\* the outer loop of calculateSV: returns the engine (M_entry_row_num updated) and new_sv
CalcColumns(e, sender_id, column, new_sv) ==
    IF column > e.peer_number - 1 THEN [e |-> e, new_sv |-> new_sv]
    ELSE IF OwnsColumn(e, column, sender_id)
         THEN LET m == MinRow(e.M, column, 1, e.M[1][column + 1], 0) IN
              CalcColumns([e EXCEPT !.M_entry_row_num[column + 1] = m.min_row_num],
                          sender_id, column + 1,
                          [new_sv EXCEPT ![column + 1] = m.min])
         ELSE CalcColumns(e, sender_id, column + 1, new_sv)

VV_calculateSV(e, sender_id) == CalcColumns(e, sender_id, 0, e.SV)

RECURSIVE SortByCtr(_, _)
\* SD.sort_by(ctr): a stable sort; the counters of SMap are distinct
SortByCtr(SMap, SD) ==
    IF Len(SD) = 0 THEN <<>>
    ELSE LET k == CHOOSE i \in 1 .. Len(SD) :
                      \A l \in 1 .. Len(SD) :
                          SMap[SD[i]].ctr < SMap[SD[l]].ctr
                          \/ (SMap[SD[i]].ctr = SMap[SD[l]].ctr /\ i <= l)
         IN <<SD[k]>> \o SortByCtr(SMap, SubSeq(SD, 1, k - 1) \o SubSeq(SD, k + 1, Len(SD)))

\* variant of StableOrder with the comparison of the counters reversed
StableOrder_reversed(SMap, SD) ==
    LET sorted == SortByCtr(SMap, SD)
    IN [i \in 1 .. Len(sorted) |-> sorted[Len(sorted) + 1 - i]]

\* the order in which stabilize emits the dots of SD
StableOrder(SMap, SD) == SortByCtr(SMap, SD)

RECURSIVE StabilizeEach(_, _, _)
StabilizeEach(e, SD, i) ==
    IF e.panic \/ i > Len(SD) THEN e
    ELSE LET s == SD[i] IN
         IF s \notin DOMAIN e.SMap THEN Panic(e)
         ELSE LET stable_dot == e.SMap[s] IN
              StabilizeEach(
                [e EXCEPT !.SMap = MapRemove(@, s),
                          !.client = Append(@, [type |-> "Stable",
                                                sender_id |-> stable_dot.j,
                                                message_id |-> stable_dot.message.id,
                                                version_vector |->
                                                    stable_dot.message.version_vector])],
                SD, i + 1)

VV_stabilize(e, SD) ==
    IF Len(SD) >= 2 /\ \E i \in 1 .. Len(SD) : SD[i] \notin DOMAIN e.SMap
    THEN Panic(e)
    ELSE StabilizeEach(e, StableOrder(e.SMap, SD), 1)

VV_updatestability(e, j, message) ==
    LET e1 == [e EXCEPT !.M[e.peer_index + 1] = e.V]
        e2 == IF j # e.peer_index
              THEN [e1 EXCEPT !.M[j + 1] = message.version_vector]
              ELSE e1
        temp_dot == <<j, message.version_vector[j + 1]>>
        e3 == [e2 EXCEPT !.ctr = @ + 1]
    IN IF temp_dot \in DOMAIN e3.SMap THEN Panic(e3)
       ELSE
       LET e4 == [e3 EXCEPT !.SMap = MapInsert(@, temp_dot,
                                [ctr |-> e3.ctr, j |-> j, message |-> message])]
       IN IF ~(e4.recompute_all \/ SeqContains(e4.M_entry_row_num, j)) THEN e4
          ELSE LET calc == VV_calculateSV(e4, j)
                   newSV == calc.new_sv
                   e5 == calc.e
               IN IF equal(e5.SV, newSV) THEN e5
                  ELSE VV_stabilize(
                         [e5 EXCEPT !.SV = newSV,
                                    !.underflow = @ \/ dif_underflows(newSV, e5.SV,
                                                                      Len(newSV))],
                         dif(newSV, e5.SV, Len(newSV)))

\* a variant of DeliveredV that counts the delivery twice
DeliveredV_twice(V, sender_id) == [V EXCEPT ![sender_id + 1] = @ + 2]

\* V[sender_id] += 1 at a delivery
DeliveredV(V, sender_id) == [V EXCEPT ![sender_id + 1] = @ + 1]

VV_deliver_and_log_message(e, message, sender_id) ==
    LET e1 == [e EXCEPT !.V = DeliveredV(@, sender_id),
                        !.client = Append(@, [type |-> "Delivery",
                                              sender_id |-> sender_id,
                                              message_id |-> message.id,
                                              version_vector |-> message.version_vector])]
    IN IF e1.track THEN VV_updatestability(e1, sender_id, message) ELSE e1

\* variant of KeepQueueNode that does not copy the entry down
KeepQueueNode_skipped(DQ, received_index, queue_node) == DQ

\* self.DQ[received_index] = queue_node.clone()
KeepQueueNode(DQ, received_index, queue_node) ==
    [DQ EXCEPT ![received_index + 1] = queue_node]

RECURSIVE VV_deliver_loop(_, _, _)
\* the loop of deliver, at the cursors delivered_index and received_index
VV_deliver_loop(e, delivered_index, received_index) ==
    IF e.panic THEN e
    ELSE IF delivered_index >= Len(e.DQ)
    THEN IF received_index < delivered_index
         THEN LET e1 == [e EXCEPT !.DQ = SubSeq(@, 1, received_index)] IN
              IF Len(e1.DQ) > 0 THEN VV_deliver_loop(e1, 0, 0) ELSE e1
         ELSE e
    ELSE LET queue_node == e.DQ[delivered_index + 1] IN
         IF compare_version_vectors(queue_node.j, e.V, queue_node.message.version_vector)
         THEN VV_deliver_loop(
                VV_deliver_and_log_message(e, e.DQ[delivered_index + 1].message,
                                           e.DQ[delivered_index + 1].j),
                delivered_index + 1, received_index)
         ELSE VV_deliver_loop(
                [e EXCEPT !.DQ = KeepQueueNode(@, received_index, queue_node)],
                delivered_index + 1, received_index + 1)

RECURSIVE VV_deliver_pass(_, _, _)
\* one pass of the loop of deliver that stops at the end of the queue
VV_deliver_pass(e, delivered_index, received_index) ==
    IF e.panic THEN e
    ELSE IF delivered_index >= Len(e.DQ)
    THEN [e EXCEPT !.DQ = SubSeq(@, 1, received_index)]
    ELSE LET queue_node == e.DQ[delivered_index + 1] IN
         IF compare_version_vectors(queue_node.j, e.V, queue_node.message.version_vector)
         THEN VV_deliver_pass(
                VV_deliver_and_log_message(e, queue_node.message, queue_node.j),
                delivered_index + 1, received_index)
         ELSE VV_deliver_pass(
                [e EXCEPT !.DQ = KeepQueueNode(@, received_index, queue_node)],
                delivered_index + 1, received_index + 1)

\* a variant of deliver that makes a single pass over the queue
VV_deliver_once(e) == VV_deliver_pass(e, 0, 0)

VV_deliver(e) == VV_deliver_loop(e, 0, 0)

VV_dequeue(e, message) ==
    LET e1 == [e EXCEPT !.V[e.peer_index + 1] = @ + 1] IN
    IF e1.track THEN VV_updatestability(e1, e1.peer_index, message) ELSE e1

\* the guard of receive: the message is the next one from j
VV_ReceiveFresh(e, j, message) == e.R[j + 1] < message.version_vector[j + 1]

VV_receive(e, j, message) ==
    IF ~VV_ReceiveFresh(e, j, message) THEN e
    ELSE LET e1 == [e EXCEPT !.R[j + 1] = @ + 1] IN
         IF compare_version_vectors(j, e1.V, message.version_vector)
         THEN LET e2 == VV_deliver_and_log_message(e1, message, j) IN
              IF ~e2.panic /\ Len(e2.DQ) > 0 THEN VV_deliver(e2) ELSE e2
         ELSE [e1 EXCEPT !.DQ = Append(@, [j |-> j, message |-> message])]

(***************************************************************************)
(* Client facades (graph/graph.rs, vv/version_vector.rs).  send() takes    *)
(* whether the dispatcher still holds the other end of the channel and     *)
(* returns the facade after the call, the events queued and the result.    *)
(***************************************************************************)
GraphClient_new(local_id) == [dot |-> <<local_id, 0>>, context |-> <<>>]

\* variant of update_context that keeps the dots of the message's context
update_context_keep(dot, message_context, local_context) ==
    Append(local_context, dot)

update_context(dot, message_context, local_context) ==
    Append(SelectSeq(local_context, LAMBDA client_dot :
                                        ~SeqContains(message_context, client_dot)),
           dot)

GraphClient_handle_delivery(c, message) ==
    IF message.type = "Delivery"
    THEN [c EXCEPT !.context = update_context(message.dot, message.context, @)]
    ELSE c

\* variant of ContextAfterSend that also keeps the dot sent before
ContextAfterSend_both(dot) ==
    IF dot[2] > 1 THEN <<<<dot[1], dot[2] - 1>>, dot>> ELSE <<dot>>

\* the context send() leaves for the next message
ContextAfterSend(dot) == <<dot>>

GraphClient_send(c, connected) ==
    LET dot == <<c.dot[1], c.dot[2] + 1>>
        client_message == [type |-> "Client", dot |-> dot, context |-> c.context]
    IN IF ~connected
       THEN [cli |-> [c EXCEPT !.dot = dot], events |-> <<>>, ret |-> <<"Err">>]
       ELSE [cli |-> [dot |-> dot, context |-> ContextAfterSend(dot)],
             events |-> <<client_message>>,
             ret |-> <<"Ok", c.context>>]

VVClient_new(local_id, client_number) ==
    [message_id |-> 0, V |-> VersionVector_new(client_number), local_id |-> local_id]

VVClient_handle_delivery(c, message) ==
    IF message.type = "Delivery"
    THEN [c EXCEPT !.V[message.sender_id + 1] =
                       message.version_vector[message.sender_id + 1]]
    ELSE c

VVClient_send(c, connected) ==
    LET c1 == [c EXCEPT !.message_id = @ + 1, !.V[c.local_id + 1] = c.message_id + 1]
        msg == [type |-> "Client", msg_id |-> c1.message_id, version_vector |-> c1.V]
    IN IF ~connected
       THEN [cli |-> c1, events |-> <<>>, ret |-> <<"Err">>]
       ELSE [cli |-> c1, events |-> <<msg>>, ret |-> <<"Ok">>]

(***************************************************************************)
(* What an item of the client channel is about (GenericReturn).            *)
(***************************************************************************)
ItemDot(item) ==
    IF kind = "graph" THEN item.dot
    ELSE IF item.type = "Delivery"
         THEN <<item.sender_id, item.version_vector[item.sender_id + 1]>>
         ELSE <<item.sender_id, item.message_id>>

\* the dots the client of p has taken as Delivery so far
Seen(p) == {ItemDot(eng[p].client[i]) :
                i \in {x \in 1 .. rd[p] : eng[p].client[x].type = "Delivery"}}

\* number of send() calls of p so far
Counter(p) == IF kind = "graph" THEN cli[p].dot[2] ELSE cli[p].message_id

RECURSIVE SendsUpTo(_)
SendsUpTo(p) == IF p = 0 THEN Counter(0) ELSE Counter(p) + SendsUpTo(p - 1)

Sends == SendsUpTo(n - 1)

\* the dispatcher thread of p runs (it has not aborted)
Running(p) == ~eng[p].panic

\* the wire message of a Client event
WireMessage(ev) ==
    IF kind = "graph" THEN [dot |-> ev.dot, context |-> ev.context]
    ELSE [id |-> ev.msg_id, version_vector |-> ev.version_vector]

(***************************************************************************)
(* The state after construction, for a group of nn peers running engine    *)
(* kd with track_causal_stability = tr.                                    *)
(***************************************************************************)
InitGroup(nn, kd, tr) ==
    /\ n = nn
    /\ kind = kd
    /\ cli = [p \in 0 .. (nn - 1) |->
                 IF kd = "graph" THEN GraphClient_new(p) ELSE VVClient_new(p, nn)]
    /\ mq = [p \in 0 .. (nn - 1) |-> <<>>]
    /\ net = [c \in {x \in (0 .. (nn - 1)) \X (0 .. (nn - 1)) : x[1] # x[2]} |-> <<>>]
    /\ eng = [p \in 0 .. (nn - 1) |->
                 IF kd = "graph" THEN GRAPH_new(p, nn, tr) ELSE VV_new(nn, p, tr)]
    /\ rd = [p \in 0 .. (nn - 1) |-> 0]
    /\ sent = EmptyMap
    /\ toAck = [p \in 0 .. (nn - 1) |-> {}]
    /\ dup = 0

InitCfg(nn, kd, tr) ==
    /\ InitGroup(nn, kd, tr)
    /\ su = Parked
    /\ lc = Parked
    /\ bs = Parked
    /\ ck = Parked

(***************************************************************************)
(* Client thread of p.                                                     *)
(***************************************************************************)
\* a call of send() by the client of p
SendBy(p) ==
    /\ LET r == IF kind = "graph" THEN GraphClient_send(cli[p], Running(p))
                ELSE VVClient_send(cli[p], Running(p))
           dot == <<p, Counter(p) + 1>>
       IN /\ cli' = [cli EXCEPT ![p] = r.cli]
          /\ mq' = [mq EXCEPT ![p] = @ \o r.events]
          /\ sent' = IF r.events = <<>> THEN sent
                     ELSE MapInsert(sent, dot,
                                    [msg |-> WireMessage(r.events[1]),
                                     seen |-> Seen(p),
                                     ret |-> r.ret])
    /\ UNCHANGED <<n, kind, net, eng, rd, toAck, dup, aux>>

ClientSend(p) ==
    /\ Sends < MaxMsgs
    /\ SendBy(p)

\* recv / try_recv / recv_timeout taking one item
ClientRecv(p) ==
    /\ rd[p] < Len(eng[p].client)
    /\ LET message == eng[p].client[rd[p] + 1] IN
          /\ cli' = [cli EXCEPT ![p] =
                        IF kind = "graph" THEN GraphClient_handle_delivery(@, message)
                        ELSE VVClient_handle_delivery(@, message)]
          /\ toAck' = IF kind = "graph" /\ message.type = "Stable"
                      THEN [toAck EXCEPT ![p] = @ \cup {message.dot}]
                      ELSE toAck
    /\ rd' = [rd EXCEPT ![p] = @ + 1]
    /\ UNCHANGED <<n, kind, mq, net, eng, sent, dup, aux>>

\* tcbstable(id, counter) for a dot the client was told is stable
ClientAck(p) ==
    /\ kind = "graph"
    /\ Running(p)
    /\ \E d \in toAck[p] :
          /\ mq' = [mq EXCEPT ![p] = Append(@, [type |-> "Stable", dot |-> d])]
          /\ toAck' = [toAck EXCEPT ![p] = @ \ {d}]
    /\ UNCHANGED <<n, kind, cli, net, eng, rd, sent, dup, aux>>

(***************************************************************************)
(* Dispatcher thread of p (middleware_thread.rs).  Its inbound queue is    *)
(* fed by the client and by one reader per stream; each feeder's items     *)
(* stay in order, so the next event is the head of any feeder.             *)
(***************************************************************************)
Broadcast(p, message) ==
    [c \in DOMAIN net |-> IF c[1] = p THEN Append(net[c], message) ELSE net[c]]

DispatchClient(p) ==
    /\ Running(p)
    /\ mq[p] # <<>>
    /\ LET ev == mq[p][1] IN
          IF ev.type = "Client"
          THEN LET message == WireMessage(ev)
                   e1 == IF kind = "graph" THEN GRAPH_dequeue(eng[p], message)
                         ELSE VV_dequeue(eng[p], message)
               IN /\ eng' = [eng EXCEPT ![p] = e1]
                  /\ net' = IF e1.panic THEN net ELSE Broadcast(p, message)
          ELSE /\ eng' = [eng EXCEPT ![p] = GRAPH_deletestable(@, ev.dot)]
               /\ net' = net
    /\ mq' = [mq EXCEPT ![p] = Tail(@)]
    /\ UNCHANGED <<n, kind, cli, rd, sent, toAck, dup, aux>>

DispatchPeer(p, k) ==
    /\ Running(p)
    /\ k # p
    /\ net[<<k, p>>] # <<>>
    /\ LET message == net[<<k, p>>][1] IN
          eng' = [eng EXCEPT ![p] =
                     IF kind = "graph" THEN GRAPH_receive(@, message)
                     ELSE VV_receive(@, k, message)]
    /\ net' = [net EXCEPT ![<<k, p>>] = Tail(@)]
    /\ UNCHANGED <<n, kind, cli, mq, rd, sent, toAck, dup, aux>>

\* the wire messages of k that have been handed to the engine of p
Received(p, k) ==
    {sent[<<k, c>>].msg : c \in 1 .. (eng[k].V[k + 1] - Len(net[<<k, p>>]))}

\* a wire message of k that p's engine was already handed is handed to its
\* receive once more
DuplicateReceive(p, k) ==
    /\ Running(p)
    /\ k # p
    /\ dup < MaxDups
    /\ \E message \in Received(p, k) :
          eng' = [eng EXCEPT ![p] =
                     IF kind = "graph" THEN GRAPH_receive(@, message)
                     ELSE VV_receive(@, k, message)]
    /\ dup' = dup + 1
    /\ UNCHANGED <<n, kind, cli, mq, net, rd, sent, toAck, aux>>

Init == \E nn \in 2 .. MaxPeers, kd \in {"graph", "vv"}, tr \in BOOLEAN :
            InitCfg(nn, kd, tr)

Next ==
    \/ \E p \in Peers : ClientSend(p)
    \/ \E p \in Peers : ClientRecv(p)
    \/ \E p \in Peers : ClientAck(p)
    \/ \E p \in Peers : DispatchClient(p)
    \/ \E p \in Peers, k \in Peers : DispatchPeer(p, k)

Spec == Init /\ [][Next]_vars

\* a step of some dispatcher thread
Dispatch ==
    \/ \E p \in Peers : DispatchClient(p)
    \/ \E p \in Peers, k \in Peers : DispatchPeer(p, k)

\* ENABLED Dispatch, from the guards of DispatchClient and DispatchPeer
DispatchEnabled ==
    \E p \in Peers :
        /\ Running(p)
        /\ \/ mq[p] # <<>>
           \/ \E k \in Peers \ {p} : net[<<k, p>>] # <<>>

\* the steps of Next that are Dispatch steps: a dispatcher took the head of
\* its client queue or of one of its streams
DispatchStep ==
    \/ \E p \in Peers : Len(mq'[p]) < Len(mq[p])
    \/ \E c \in DOMAIN net : Len(net'[c]) < Len(net[c])

\* a dispatcher thread loops on its inbound queue, so an event waiting in a
\* queue or on a stream is eventually handed to an engine: WF_vars(Dispatch),
\* written out with the enabling condition and the step test above
DispatchFairness == []<>(~DispatchEnabled) \/ []<><<DispatchStep>>_vars

FairSpec == Spec /\ DispatchFairness

\* A group of three on the vector-clock engine with stability tracking on,
\* where the sends happen in the order of SendOrder, each client takes what
\* its engine emits and each dispatcher takes what its client queued before
\* the next send or the next wire message.
SendOrder == <<2, 0, 1, 2, 1, 0>>

\* nothing is left for a client to take or for a dispatcher to dequeue
Prompt == \A q \in Peers : mq[q] = <<>> /\ rd[q] = Len(eng[q].client)

OrderedSend(p) ==
    /\ Prompt
    /\ Sends < Len(SendOrder)
    /\ p = SendOrder[Sends + 1]
    /\ SendBy(p)

PromptPeer(p, k) ==
    /\ Prompt
    /\ DispatchPeer(p, k)

InitVV3 == InitCfg(3, "vv", TRUE)

NextVV3 ==
    \/ \E p \in Peers : OrderedSend(p)
    \/ \E p \in Peers : ClientRecv(p)
    \/ \E p \in Peers : DispatchClient(p)
    \/ \E p \in Peers, k \in Peers : PromptPeer(p, k)

SpecVV3 == InitVV3 /\ [][NextVV3]_vars

\* Scenario S1: two peers, stability tracking on; peer 0 sends three
\* messages and peer 1 two, each client before it takes anything from its
\* engine, so that every context holds the sender's previous dot only.
S1Sends == <<3, 2>>

S1Send(p) ==
    /\ Counter(p) < S1Sends[p + 1]
    /\ rd[p] = 0
    /\ SendBy(p)

S1Recv(p) ==
    /\ Counter(p) = S1Sends[p + 1]
    /\ ClientRecv(p)

InitS1 == \E kd \in {"graph", "vv"} : InitCfg(2, kd, TRUE)

NextS1 ==
    \/ \E p \in Peers : S1Send(p)
    \/ \E p \in Peers : S1Recv(p)
    \/ \E p \in Peers : DispatchClient(p)
    \/ \E p \in Peers, k \in Peers : DispatchPeer(p, k)

SpecS1 == InitS1 /\ [][NextS1]_vars

\* the runs in which wire messages may also be handed to receive again
NextDup ==
    \/ Next
    \/ \E p \in Peers, k \in Peers : DuplicateReceive(p, k)

SpecDup == Init /\ [][NextDup]_vars

(***************************************************************************)
(* Histories the properties are stated on.                                 *)
(***************************************************************************)
\* everything the engine of p has emitted to its client, in order
Log(p) == eng[p].client

\* positions of Log(p) holding an item of this type
Positions(p, type) == {i \in 1 .. Len(Log(p)) : Log(p)[i].type = type}

\* the dots p's engine has emitted Delivery (Stable) for
DeliveredAt(p) == {ItemDot(Log(p)[i]) : i \in Positions(p, "Delivery")}

StableAt(p) == {ItemDot(Log(p)[i]) : i \in Positions(p, "Stable")}

\* the earlier dots of the same sender
OwnEarlier(d) == {<<d[1], c>> : c \in 1 .. (d[2] - 1)}

\* graph engine: the causal past of a sent dot, from the contexts on the wire
RECURSIVE GraphPast(_)
GraphPast(d) ==
    LET direct == SeqToSet(sent[d].msg.context) \cup OwnEarlier(d)
    IN direct \cup UNION {GraphPast(x) : x \in direct}

\* vector-clock engine: the causal past of a sent message, from what the
\* sender's client had taken as Delivery when it called send()
RECURSIVE VVPast(_)
VVPast(d) ==
    LET direct == sent[d].seen \cup OwnEarlier(d)
    IN direct \cup UNION {VVPast(x) : x \in direct}

Past(d) == IF kind = "graph" THEN GraphPast(d) ELSE VVPast(d)

\* in Log(p), no item of this type about a dot comes after one about a dot
\* that has it in its causal past
CausalOrder(p, type) ==
    \A i \in Positions(p, type) : \A j \in Positions(p, type) :
        i < j => ItemDot(Log(p)[j]) \notin Past(ItemDot(Log(p)[i]))

\* p has items of this type for two dots of two other peers, one in the
\* causal past of the other
OrderedPair(p, type) ==
    \E i \in Positions(p, type) : \E j \in Positions(p, type) :
        /\ i < j
        /\ ItemDot(Log(p)[i]) \in Past(ItemDot(Log(p)[j]))
        /\ ItemDot(Log(p)[i])[1] # ItemDot(Log(p)[j])[1]

(***************************************************************************)
(* Properties.                                                             *)
(***************************************************************************)

\* C1: graph engine, stability tracking on or off: a peer that delivers two
\* dots, one in the causal past of the other (by the contexts, by the
\* sender's counters, or transitively), delivers the earlier one first.
C1_GraphCausalDelivery ==
    kind = "graph" => \A p \in Peers : CausalOrder(p, "Delivery")

\* a peer of a group of three has delivered, in order, two dots of the two
\* other peers, the first in the causal past of the second
C1_Witness ==
    /\ kind = "graph"
    /\ n = 3
    /\ \E p \in Peers :
          /\ OrderedPair(p, "Delivery")
          /\ \A d \in DeliveredAt(p) : d[1] # p

\* C2: vector-clock engine with the VV client facade: a peer that delivers
\* two messages, one of which happened before the other, delivers the
\* earlier one first.
C2_VVCausalDelivery ==
    kind = "vv" => \A p \in Peers : CausalOrder(p, "Delivery")

C2_Witness ==
    /\ kind = "vv"
    /\ n = 3
    /\ \E p \in Peers :
          /\ OrderedPair(p, "Delivery")
          /\ \A d \in DeliveredAt(p) : d[1] # p

\* the dots waiting at p: live nodes in stage RCV (graph), entries of DQ (vv)
Waiting(p) ==
    IF kind = "graph"
    THEN {d \in DOMAIN eng[p].dot_to_index_map :
             GNode(eng[p], eng[p].dot_to_index_map[d]).stage = "RCV"}
    ELSE {<<eng[p].DQ[i].j, eng[p].DQ[i].message.version_vector[eng[p].DQ[i].j + 1]>> :
             i \in 1 .. Len(eng[p].DQ)}

\* number of Delivery items of Log(p) for dot d
DeliveryCount(p, d) ==
    Cardinality({i \in Positions(p, "Delivery") : ItemDot(Log(p)[i]) = d})

\* every dot sent so far has been delivered once at every other peer, and
\* nothing waits
Settled ==
    \A p \in Peers :
        /\ Waiting(p) = {}
        /\ \A d \in DOMAIN sent : d[1] # p => DeliveryCount(p, d) = 1

\* C3: both engines, reliable FIFO streams, fair dispatchers: every dot sent
\* is eventually delivered at every other peer, exactly once, and no message
\* waits forever in stage RCV or in DQ.
C3_EventualDelivery == []<>Settled

\* all the sends of a run of three peers are done and delivered, some of
\* them after a dot of another peer they depend on
C3_Witness ==
    /\ n = 3
    /\ Sends = MaxMsgs
    /\ Settled
    /\ \E p \in Peers : OrderedPair(p, "Delivery")

\* C4: both engines, also when wire messages are handed to receive more than
\* once: an engine emits at most one Delivery per dot.
C4_DeliveryAtMostOnce ==
    \A p \in Peers : \A d \in DeliveredAt(p) : DeliveryCount(p, d) = 1

\* wire messages were handed to receive a second time, and some peer has
\* delivered every dot of the other peers
C4_Witness ==
    /\ dup = MaxDups
    /\ Sends = MaxMsgs
    /\ \E p \in Peers :
          /\ Waiting(p) = {}
          /\ \A d \in DOMAIN sent : d[1] # p => d \in DeliveredAt(p)

\* stability tracking is on in this run
Tracking == \A p \in Peers : eng[p].track

\* number of Stable items of Log(p) for dot d
StableCount(p, d) ==
    Cardinality({i \in Positions(p, "Stable") : ItemDot(Log(p)[i]) = d})

\* C5: both engines, stability tracking on: when an engine has emitted
\* Stable for dot d, every peer other than d's sender has delivered d.
C5_StableOnlyWhenDeliveredEverywhere ==
    Tracking =>
        \A p \in Peers : \A d \in StableAt(p) :
            \A q \in Peers \ {d[1]} : d \in DeliveredAt(q)

\* in a group of three, a peer has emitted Stable for a dot of another peer
C5_Witness ==
    /\ Tracking
    /\ n = 3
    /\ \E p \in Peers : \E d \in StableAt(p) : d[1] # p

\* C6: graph engine, stability tracking on: an engine emits Stable at most
\* once per dot, and never Stable for a dot after Stable for a dot that has
\* it in its causal past.
C6_GraphStableOrder ==
    (kind = "graph" /\ Tracking) =>
        \A p \in Peers :
            /\ \A d \in StableAt(p) : StableCount(p, d) = 1
            /\ CausalOrder(p, "Stable")

\* a peer has emitted Stable for two dots of different senders, one in the
\* causal past of the other
C6_Witness ==
    /\ kind = "graph"
    /\ Tracking
    /\ \E p \in Peers : OrderedPair(p, "Stable")

\* C7: vector-clock engine, stability tracking on, any group size: an engine
\* emits Stable at most once per message, and never Stable for a message
\* after Stable for a message it happened before.
C7_VVStableOrder ==
    (kind = "vv" /\ Tracking) =>
        \A p \in Peers :
            /\ \A d \in StableAt(p) : StableCount(p, d) = 1
            /\ CausalOrder(p, "Stable")

\* the dots of scenario S1
S1Dots == {<<0, 1>>, <<0, 2>>, <<0, 3>>, <<1, 1>>, <<1, 2>>}

\* both peers of S1 have delivered every dot of the other
S1Delivered ==
    /\ DOMAIN sent = S1Dots
    /\ \A p \in Peers : \A d \in S1Dots : d[1] # p => d \in DeliveredAt(p)

C9_VMonotone ==
    [][\A p \in Peers : \A i \in 1 .. n : eng[p].V[i] <= eng'[p].V[i]]_vars

\* an engine's V has grown by a dequeue and by deliveries from two peers
C9_Witness ==
    \E p \in Peers :
        /\ eng[p].V[p + 1] >= 1
        /\ Cardinality({k \in Peers \ {p} : eng[p].V[k + 1] >= 1}) >= 2

\* the client of p takes a Delivery in this step: its context becomes the
\* previous one without the dots of the message's context, plus the dot
TakesDelivery(p) ==
    (rd'[p] = rd[p] + 1 /\ Log(p)[rd[p] + 1].type = "Delivery") =>
        LET message == Log(p)[rd[p] + 1]
            expected == (SeqToSet(cli[p].context) \ SeqToSet(message.context))
                            \cup {message.dot}
        IN /\ SeqToSet(cli'[p].context) = expected
           /\ Len(cli'[p].context) = Cardinality(expected)

\* the client of p sends in this step: the message carries the context the
\* client had, send() returns that context, and the new context is the dot sent
SendsMessage(p) ==
    (cli'[p].dot # cli[p].dot /\ cli'[p].dot \in DOMAIN sent') =>
        /\ sent'[cli'[p].dot].msg.context = cli[p].context
        /\ sent'[cli'[p].dot].ret = <<"Ok", cli[p].context>>
        /\ cli'[p].context = <<cli'[p].dot>>

\* C10: graph client facade: taking a Delivery of d with context C turns the
\* next-send context into the previous one minus the dots of C, plus d; a
\* successful send() returns the context the message was sent with and
\* leaves the context holding exactly the dot just sent.
C10_ContextCompaction ==
    [][kind = "graph" => \A p \in Peers : TakesDelivery(p) /\ SendsMessage(p)]_vars

\* a client has sent a message with two dots in its context, and a client
\* that took its Delivery has dropped a dot of that context from its own
C10_Witness ==
    /\ kind = "graph"
    /\ \E d \in DOMAIN sent :
          /\ Len(sent[d].msg.context) >= 2
          /\ sent[d].ret = <<"Ok", sent[d].msg.context>>
          /\ \E p \in Peers \ {d[1]} :
                /\ rd[p] >= 2
                /\ Log(p)[rd[p]].type = "Delivery"
                /\ Log(p)[rd[p]].dot = d
                /\ cli[p].context = <<d>>

\* the message is stale for engine e: its dot was already received or
\* superseded
Stale(e, j, message) ==
    IF kind = "graph"
    THEN \/ e.V[message.dot[1] + 1] >= message.dot[2]
         \/ /\ message.dot \in DOMAIN e.dot_to_index_map
            /\ GNode(e, e.dot_to_index_map[message.dot]).stage \in {"RCV", "DLV", "STB"}
    ELSE message.version_vector[j + 1] <= e.R[j + 1]

\* what receive makes of engine e when handed message from peer j
ReceiveResult(e, j, message) ==
    IF kind = "graph" THEN GRAPH_receive(e, message) ELSE VV_receive(e, j, message)

\* C11: both engines: a receive of a message that is stale for the engine
\* (graph: V[dot.id] >= dot.counter or the dot's node in stage RCV, DLV or
\* STB; vv: m.vv[j] <= R[j]) leaves every engine variable unchanged and
\* emits nothing to the client.
C11_StaleReceiveIsNoOp ==
    \A p \in Peers : \A d \in DOMAIN sent :
        (d[1] # p /\ Stale(eng[p], d[1], sent[d].msg)) =>
            ReceiveResult(eng[p], d[1], sent[d].msg) = eng[p]

\* messages were handed to receive a second time; at some peer one message
\* is stale because it waits (graph: stage RCV) and another because it was
\* delivered
C11_Witness ==
    /\ dup = MaxDups
    /\ \E p \in Peers :
          /\ \E d \in Waiting(p) : Stale(eng[p], d[1], sent[d].msg)
          /\ \E d \in DeliveredAt(p) : d[1] # p /\ Stale(eng[p], d[1], sent[d].msg)


(***************************************************************************)
(* Group startup (start_service, acceptor.rs, connector.rs, reader.rs).    *)
(* su.listening[p]: the acceptor of p has bound its listener;              *)
(* su.out[p]: the peers the connector of p has a stream to;                *)
(* su.pending[p]: inbound connections the acceptor of p has not handled;   *)
(* su.reader[p][k]: the reader of p for the stream from k;                 *)
(* su.main[p]: where the thread calling new() is;                          *)
(* su.arrived[p]: threads that called setup_end_barrier.wait();            *)
(* su.chan[<<p, k>>]: messages queued for the sender of p towards k;       *)
(* su.stream[<<p, k>>]: messages written on the stream p -> k, not read;   *)
(* su.fwd[p]: Peer messages the readers of p handed to its dispatcher;     *)
(* su.sends[p]: broadcasts of the dispatcher of p.                         *)
(***************************************************************************)
MaxSetupSends == 1    \* broadcasts of one peer during a startup run

\* what the startup threads leave alone
SetupFrame == <<group, lc, bs, ck>>

Others(p) == Peers \ {p}

Links == {c \in Peers \X Peers : c[1] # c[2]}

\* Barrier::new(peer_addresses.len() + 1)
BarrierSize_readers(nn) == nn - 1

BarrierSize(nn) == nn

StartService_new ==
    [listening |-> [p \in Peers |-> FALSE],
     out       |-> [p \in Peers |-> {}],
     pending   |-> [p \in Peers |-> {}],
     reader    |-> [p \in Peers |-> [k \in Others(p) |-> "none"]],
     main      |-> [p \in Peers |-> "connecting"],
     arrived   |-> [p \in Peers |-> 0],
     chan      |-> [c \in Links |-> 0],
     stream    |-> [c \in Links |-> 0],
     fwd       |-> [p \in Peers |-> 0],
     sends     |-> [p \in Peers |-> 0]]

\* acceptor::start binds the listener of p
AcceptorBind(p) ==
    /\ ~su.listening[p]
    /\ su' = [su EXCEPT !.listening[p] = TRUE]
    /\ UNCHANGED SetupFrame

\* connect_to_single_peer: TcpStream::connect to k succeeds, the sender
\* thread of p towards k is spawned
ConnectToSinglePeer(p, k) ==
    /\ su.main[p] = "connecting"
    /\ k \in Others(p) \ su.out[p]
    /\ su.listening[k]
    /\ su' = [su EXCEPT !.out[p] = @ \cup {k}, !.pending[k] = @ \cup {p}]
    /\ UNCHANGED SetupFrame

\* handle_new_connection at p for the connection from k: the handshake is
\* answered and the reader thread is spawned
HandleNewConnection(p, k) ==
    /\ k \in su.pending[p]
    /\ su' = [su EXCEPT !.pending[p] = @ \ {k}, !.reader[p][k] = "created"]
    /\ UNCHANGED SetupFrame

\* reader::start: setup_end_barrier.wait()
ReaderWait(p, k) ==
    /\ su.reader[p][k] = "created"
    /\ su' = [su EXCEPT !.reader[p][k] = "waiting", !.arrived[p] = @ + 1]
    /\ UNCHANGED SetupFrame

\* the barrier lets the reader go once enough threads have arrived
ReaderPass(p, k) ==
    /\ su.reader[p][k] = "waiting"
    /\ su.arrived[p] >= BarrierSize(n)
    /\ su' = [su EXCEPT !.reader[p][k] = "running"]
    /\ UNCHANGED SetupFrame

\* start_service: connector::start has returned, the dispatcher is spawned
\* and the calling thread reaches setup_end_barrier.wait()
MainWait(p) ==
    /\ su.main[p] = "connecting"
    /\ su.out[p] = Others(p)
    /\ su' = [su EXCEPT !.main[p] = "waiting", !.arrived[p] = @ + 1]
    /\ UNCHANGED SetupFrame

\* start_service returns, and with it new()
MainReturn(p) ==
    /\ su.main[p] = "waiting"
    /\ su.arrived[p] >= BarrierSize(n)
    /\ su' = [su EXCEPT !.main[p] = "returned"]
    /\ UNCHANGED SetupFrame

\* the client of p calls send() and the dispatcher hands the message to
\* every sender thread (handle_message_from_client)
SetupBroadcast(p) ==
    /\ su.main[p] = "returned"
    /\ su.sends[p] < MaxSetupSends
    /\ su' = [su EXCEPT !.sends[p] = @ + 1,
                        !.chan = [c \in Links |->
                                     IF c[1] = p THEN su.chan[c] + 1 ELSE su.chan[c]]]
    /\ UNCHANGED SetupFrame

\* the sender of p towards k has finished its handshake (finish_protocol
\* reads the answer of handle_new_connection at k)
Handshaken(p, k) == su.reader[k][p] # "none"

\* the sender of p towards k writes a queued message: the message barrier
\* is passed once every sender of p waits on it
SenderWrite(p, k) ==
    /\ k # p
    /\ su.chan[<<p, k>>] > 0
    /\ \A q \in Others(p) : Handshaken(p, q)
    /\ su' = [su EXCEPT !.chan[<<p, k>>] = @ - 1, !.stream[<<p, k>>] = @ + 1]
    /\ UNCHANGED SetupFrame

\* the reader of p for k reads a message and forwards it to the dispatcher
ReaderForward(p, k) ==
    /\ k # p
    /\ su.reader[p][k] = "running"
    /\ su.stream[<<k, p>>] > 0
    /\ su' = [su EXCEPT !.stream[<<k, p>>] = @ - 1, !.fwd[p] = @ + 1]
    /\ UNCHANGED SetupFrame

InitSetup ==
    /\ InitGroup(MaxPeers, "graph", TRUE)
    /\ su = StartService_new
    /\ lc = Parked
    /\ bs = Parked
    /\ ck = Parked

NextSetup ==
    \/ \E p \in Peers : AcceptorBind(p)
    \/ \E p \in Peers, k \in Peers : ConnectToSinglePeer(p, k)
    \/ \E p \in Peers, k \in Peers : HandleNewConnection(p, k)
    \/ \E p \in Peers, k \in Peers : k # p /\ ReaderWait(p, k)
    \/ \E p \in Peers, k \in Peers : k # p /\ ReaderPass(p, k)
    \/ \E p \in Peers : MainWait(p)
    \/ \E p \in Peers : MainReturn(p)
    \/ \E p \in Peers : SetupBroadcast(p)
    \/ \E p \in Peers, k \in Peers : SenderWrite(p, k)
    \/ \E p \in Peers, k \in Peers : ReaderForward(p, k)

SpecSetup == InitSetup /\ [][NextSetup]_vars

\* p has a reader for each inbound stream and all its outbound streams
SetupComplete(p) ==
    /\ \A k \in Others(p) : su.reader[p][k] # "none"
    /\ su.out[p] = Others(p)

\* C12: at each peer no reader forwards a Peer message to the dispatcher,
\* and new() does not return, before the peer has created a reader for each
\* of its N-1 inbound streams and its connector has established all N-1
\* outbound streams.
C12_StartupBarrier ==
    [][\A p \in Peers :
          /\ su'.fwd[p] > su.fwd[p] => SetupComplete(p)
          /\ (su.main[p] # "returned" /\ su'.main[p] = "returned") => SetupComplete(p)
          /\ SetupComplete(p) => SetupComplete(p)']_vars

\* a peer has been handed a message of a peer that ended its startup early,
\* while a third peer is still connecting
C12_Witness ==
    /\ su # Parked
    /\ \E p \in Peers, q \in Peers :
          /\ su.fwd[p] > 0
          /\ su.main[q] = "connecting"


(***************************************************************************)
(* Shutdown and transport failures at one peer (LocalId) of a group of     *)
(* MaxPeers: its client, its dispatcher, its sender threads and the        *)
(* readers at the other end of its streams.                                *)
(* lc.inq: the dispatcher's inbound channel (event types, FIFO);           *)
(* lc.disp: "running", "exiting" (End handled, locals not yet dropped),    *)
(*          "exited" (thread returned: its channel ends are dropped);      *)
(* lc.applied: events handed to the engine so far;                         *)
(* lc.cl: every item ever placed on the client channel;                    *)
(* lc.crd: items the client has taken;  lc.client: where the client is;    *)
(* lc.sends: broadcasts so far, message m is the m-th one;                 *)
(* lc.peers: Peer events the local readers have forwarded;                 *)
(* lc.chan[k]: the channel of the sender towards k;                        *)
(* lc.arr[m]: the senders that called wait() on the barrier of message m;  *)
(* lc.snd[k], lc.held[k]: the sender towards k and the message it holds;   *)
(* lc.stream[k]: every envelope written on the stream to k;                *)
(* lc.rpos[k], lc.reader[k], lc.rfwd[k]: the reader of k for this stream,  *)
(*          envelopes it has read and messages it forwarded;               *)
(* lc.rdisp[k]: the dispatcher of k is running;                            *)
(* lc.left: history, some sender channel held messages at the moment the   *)
(*          dispatcher dropped it.                                         *)
(***************************************************************************)
MaxEndSends == 2     \* send() calls of the local client in a shutdown run
MaxEndPeers == 2     \* Peer events forwarded by the local readers

LocalId == 0

Remote == Peers \ {LocalId}

\* what the shutdown threads leave alone
EndFrame == <<group, su, bs, ck>>

\* handle_finished_setup: ClientMessage::Empty / MiddlewareClient::SETUP
Terminator == IF kind = "graph" THEN "Empty" ELSE "Setup"

\* the dispatcher loop after the End arm: break
AfterEnd_continue == "running"

AfterEnd == "exiting"

\* StreamMessages::Message { msg } and StreamMessages::Close
Envelope(m) == [type |-> "Message", msg |-> m]

Close == [type |-> "Close", msg |-> 0]

\* Barrier::new(channels.len())
FanoutSize == n - 1

\* recv_timeout returns Err(Disconnected): every Sender is dropped and the
\* channel is empty
RecvDisconnected_eager(queue, dropped) == dropped

RecvDisconnected(queue, dropped) == dropped /\ queue = <<>>

Lifecycle_new ==
    [inq     |-> <<>>,
     disp    |-> "running",
     applied |-> 0,
     cl      |-> <<>>,
     crd     |-> 0,
     client  |-> "open",
     sends   |-> 0,
     peers   |-> 0,
     chan    |-> [k \in Remote |-> <<>>],
     arr     |-> [m \in 1 .. MaxEndSends |-> {}],
     snd     |-> [k \in Remote |-> "recv"],
     held    |-> [k \in Remote |-> 0],
     stream  |-> [k \in Remote |-> <<>>],
     rpos    |-> [k \in Remote |-> 0],
     reader  |-> [k \in Remote |-> "running"],
     rfwd    |-> [k \in Remote |-> <<>>],
     rdisp   |-> [k \in Remote |-> TRUE],
     left    |-> FALSE]

\* send(): a Client event is queued for the dispatcher
EndClientSend ==
    /\ lc.client = "open"
    /\ Len(SelectSeq(lc.inq, LAMBDA ev : ev = "Client")) + lc.sends < MaxEndSends
    /\ lc' = [lc EXCEPT !.inq = Append(@, "Client")]
    /\ UNCHANGED EndFrame

\* recv(): the client takes an item
EndClientRecv ==
    /\ lc.client = "open"
    /\ lc.crd < Len(lc.cl)
    /\ lc' = [lc EXCEPT !.crd = @ + 1]
    /\ UNCHANGED EndFrame

\* a local reader forwards a Peer message: send on the dispatcher's channel
\* succeeds while its Receiver exists
LocalReaderForward ==
    /\ lc.disp # "exited"
    /\ lc.peers < MaxEndPeers
    /\ lc' = [lc EXCEPT !.inq = Append(@, "Peer"), !.peers = @ + 1]
    /\ UNCHANGED EndFrame

\* end(): middleware_channel.send(End).unwrap()
EndCall ==
    /\ lc.client = "open"
    /\ lc' = [lc EXCEPT !.inq = Append(@, "End"), !.client = "ending"]
    /\ UNCHANGED EndFrame

\* end(): one turn of the loop over receive_channel.recv(); the Err arm is
\* empty, so a disconnected channel makes the loop turn for ever
EndLoop(now, done, lost) ==
    /\ lc.client = now
    /\ IF lc.crd < Len(lc.cl)
       THEN lc' = [lc EXCEPT !.crd = @ + 1,
                             !.client = IF lc.cl[lc.crd + 1] = Terminator
                                        THEN done ELSE now]
       ELSE /\ lc.disp = "exited"
            /\ lc' = [lc EXCEPT !.client = lost]
    /\ UNCHANGED EndFrame

EndReturn == EndLoop("ending", "ended", "spinning")

\* end() called again after end() returned: send fails on a channel whose
\* Receiver is dropped and unwrap() panics
EndAgainCall ==
    /\ lc.client = "ended"
    /\ lc' = IF lc.disp = "exited"
             THEN [lc EXCEPT !.client = "aborted"]
             ELSE [lc EXCEPT !.inq = Append(@, "End"), !.client = "ending again"]
    /\ UNCHANGED EndFrame

EndAgainReturn == EndLoop("ending again", "ended again", "spinning")

\* handle_message_from_client: one (barrier, message) per sender channel;
\* a send to a sender that is gone only prints
Fanout(m) ==
    [k \in Remote |-> IF lc.snd[k] \in {"recv", "barrier"}
                      THEN Append(lc.chan[k], m) ELSE lc.chan[k]]

\* one turn of the dispatcher loop
DispatcherStep ==
    /\ lc.disp = "running"
    /\ lc.inq # <<>>
    /\ LET ev == Head(lc.inq) IN
          CASE ev = "Client" ->
                  lc' = [lc EXCEPT !.inq = Tail(@), !.applied = @ + 1,
                                   !.sends = @ + 1,
                                   !.chan = Fanout(lc.sends + 1)]
            [] ev = "Peer" ->
                  \E delivers \in BOOLEAN :
                      lc' = [lc EXCEPT !.inq = Tail(@), !.applied = @ + 1,
                                       !.cl = IF delivers THEN Append(@, "Delivery")
                                              ELSE @]
            [] ev = "End" ->
                  lc' = [lc EXCEPT !.inq = Tail(@),
                                   !.cl = Append(@, Terminator),
                                   !.disp = AfterEnd]
    /\ UNCHANGED EndFrame

\* the dispatcher thread returns: its Receiver, its client Senders and its
\* sender channels are dropped
DispatcherDrop ==
    /\ lc.disp = "exiting"
    /\ lc' = [lc EXCEPT !.disp = "exited",
                        !.left = \E k \in Remote : lc.chan[k] # <<>>]
    /\ UNCHANGED EndFrame

\* sender towards k: recv_timeout returns a message, message_barrier.wait()
SenderRecv(k) ==
    /\ lc.snd[k] = "recv"
    /\ lc.chan[k] # <<>>
    /\ LET m == Head(lc.chan[k]) IN
          lc' = [lc EXCEPT !.chan[k] = Tail(@), !.held[k] = m,
                           !.snd[k] = "barrier", !.arr[m] = @ \cup {k}]
    /\ UNCHANGED EndFrame

\* a variant in which the first wait() opens the barrier
BarrierOpen_first(m) == Cardinality(lc.arr[m]) >= 1

\* message_barrier.wait() returns once every party has called it
BarrierOpen(m) == Cardinality(lc.arr[m]) >= FanoutSize

\* sender towards k: the barrier opens and serialize_into succeeds
SenderWriteMessage(k) ==
    /\ lc.snd[k] = "barrier"
    /\ BarrierOpen(lc.held[k])
    /\ lc' = [lc EXCEPT !.stream[k] = Append(@, Envelope(lc.held[k])), !.held[k] = 0,
                        !.snd[k] = "recv"]
    /\ UNCHANGED EndFrame

\* sender towards k: the barrier opens and serialize_into fails: break
SenderWriteFails(k) ==
    /\ lc.snd[k] = "barrier"
    /\ BarrierOpen(lc.held[k])
    /\ lc' = [lc EXCEPT !.held[k] = 0, !.snd[k] = "failed"]
    /\ UNCHANGED EndFrame

\* sender towards k: recv_timeout returns Disconnected: Close, break
SenderClose(k) ==
    /\ lc.snd[k] = "recv"
    /\ RecvDisconnected(lc.chan[k], lc.disp = "exited")
    /\ lc' = [lc EXCEPT !.stream[k] = Append(@, Close), !.snd[k] = "exited"]
    /\ UNCHANGED EndFrame

\* reader of k: one envelope; a Message is sent to the dispatcher of k with
\* expect(), which panics once that dispatcher is gone
ReaderRead(k) ==
    /\ lc.reader[k] = "running"
    /\ lc.rpos[k] < Len(lc.stream[k])
    /\ LET envelope == lc.stream[k][lc.rpos[k] + 1] IN
          lc' = [lc EXCEPT !.rpos[k] = @ + 1,
                           !.reader[k] = IF envelope = Close THEN "stopped"
                                         ELSE IF lc.rdisp[k] THEN "running"
                                         ELSE "panicked",
                           !.rfwd[k] = IF envelope # Close /\ lc.rdisp[k]
                                       THEN Append(@, envelope.msg) ELSE @]
    /\ UNCHANGED EndFrame

\* the dispatcher of k handles End of its own client and exits
RemoteDispatcherExit(k) ==
    /\ lc.rdisp[k]
    /\ lc' = [lc EXCEPT !.rdisp[k] = FALSE]
    /\ UNCHANGED EndFrame

InitEnd ==
    /\ \E kd \in {"graph", "vv"} : InitGroup(MaxPeers, kd, TRUE)
    /\ su = Parked
    /\ lc = Lifecycle_new
    /\ bs = Parked
    /\ ck = Parked

NextEnd ==
    \/ EndClientSend
    \/ EndClientRecv
    \/ LocalReaderForward
    \/ EndCall
    \/ EndReturn
    \/ EndAgainCall
    \/ EndAgainReturn
    \/ DispatcherStep
    \/ DispatcherDrop
    \/ \E k \in Remote : SenderRecv(k)
    \/ \E k \in Remote : SenderWriteMessage(k)
    \/ \E k \in Remote : SenderClose(k)
    \/ \E k \in Remote : ReaderRead(k)
    \/ \E k \in Remote : RemoteDispatcherExit(k)

SpecEnd == InitEnd /\ [][NextEnd]_vars

\* every thread that can take a step is eventually scheduled
EndFairness ==
    /\ WF_vars(DispatcherStep)
    /\ WF_vars(DispatcherDrop)
    /\ WF_vars(EndReturn)
    /\ \A k \in 1 .. (MaxPeers - 1) :
          /\ WF_vars(SenderRecv(k))
          /\ WF_vars(SenderWriteMessage(k))
          /\ WF_vars(SenderClose(k))
          /\ WF_vars(ReaderRead(k))

FairEnd == SpecEnd /\ EndFairness

NextFail ==
    \/ NextEnd
    \/ \E k \in Remote : SenderWriteFails(k)

SpecFail == InitEnd /\ [][NextFail]_vars

FairFail == SpecFail /\ EndFairness


\* the terminators placed on the client channel so far
Terminators == Len(SelectSeq(lc.cl, LAMBDA item : item = Terminator))

\* the dispatcher takes the End event at the head of its channel
HandlesEnd ==
    /\ lc.disp = "running"
    /\ lc.inq # <<>>
    /\ Head(lc.inq) = "End"
    /\ lc'.inq = Tail(lc.inq)

\* the client, inside end(), takes the terminator
ReadsTerminator ==
    /\ lc.client = "ending"
    /\ lc.crd < Len(lc.cl)
    /\ lc.cl[lc.crd + 1] = Terminator
    /\ lc'.crd = lc.crd + 1

\* C13: when the dispatcher handles End it places exactly one terminator
\* (Empty for the graph variant, Setup for the VV variant) on the client
\* channel and exits; nothing is placed on the client channel afterwards and
\* no event queued behind End is applied to the engine; the client's end()
\* returns when it reads the terminator, and it does read it.
C13_EndTerminator ==
    /\ [][/\ HandlesEnd => /\ lc'.cl = Append(lc.cl, Terminator)
                           /\ lc'.disp # "running"
                           /\ lc'.applied = lc.applied
          /\ lc.disp # "running" => /\ lc'.cl = lc.cl
                                    /\ lc'.applied = lc.applied
                                    /\ lc'.disp # "running"
          /\ lc.disp = "running" => Terminators = 0
          /\ lc.disp # "running" => Terminators = 1 /\ lc.cl[Len(lc.cl)] = Terminator
          /\ ReadsTerminator => lc'.client = "ended"]_vars
    /\ (lc.client = "ending") ~> (lc.client = "ended")

\* the dispatcher is gone with an event left behind End, after a Delivery,
\* and end() has returned
C13_Witness ==
    /\ lc # Parked
    /\ lc.disp = "exited"
    /\ lc.inq # <<>>
    /\ Len(lc.cl) > 1
    /\ lc.client = "ended"


\* C14: end() is idempotent: a call of end() after a first end() has
\* returned neither aborts (panic of unwrap on the failed send) nor stays
\* for ever in its loop (recv on a disconnected channel, whose Err arm is
\* empty).
C14_EndIdempotent == lc.client \notin {"aborted", "spinning"}


\* the envelopes of a stream that carried messages 1 .. m and was closed
ClosedStream(m) == [i \in 1 .. (m + 1) |-> IF i <= m THEN Envelope(i) ELSE Close]

\* C15: once the channel of a sender is disconnected (the dispatcher has
\* exited), the sender writes every message still queued in the channel,
\* then Close as the last envelope of the stream, and exits; a reader that
\* stops on Close has forwarded all those messages to its dispatcher.
C15_DrainThenClose ==
    /\ [](\A k \in Remote :
             /\ lc.snd[k] = "exited" =>
                   /\ lc.chan[k] = <<>>
                   /\ lc.stream[k] = ClosedStream(lc.sends)
             /\ (Close \in SeqToSet(lc.stream[k])) => lc.snd[k] = "exited"
             /\ lc.reader[k] = "stopped" =>
                   lc.rfwd[k] = [i \in 1 .. lc.sends |-> i])
    /\ (lc.disp = "exited") ~>
          (\A k \in Remote : lc.snd[k] = "exited" /\ lc.reader[k] # "running")

\* the senders found messages queued when their channels were disconnected,
\* and the readers at the other end stopped on Close after forwarding all
C15_Witness ==
    /\ lc # Parked
    /\ lc.left
    /\ \A k \in Remote :
          /\ lc.snd[k] = "exited"
          /\ lc.reader[k] = "stopped"
          /\ Len(lc.rfwd[k]) = MaxEndSends


\* C16: transport I/O errors stay local: when a sender thread exits on a
\* failed write, every broadcast of the dispatcher is still written to the
\* stream of each sender that has not failed.
C16_ErrorsStayLocal ==
    \A k \in 1 .. (MaxPeers - 1), m \in 1 .. MaxEndSends :
        (lc.sends >= m) ~>
            (Envelope(m) \in SeqToSet(lc.stream[k]) \/ lc.snd[k] = "failed")


(***************************************************************************)
(* The batching of one sender thread (sender.rs).  Durations are whole     *)
(* numbers of microseconds.  bs.cfg is the Configuration the thread was    *)
(* started with; bs.flushed counts the calls of stream.flush() in the last *)
(* turn of the loop and bs.last records what that turn received.           *)
(***************************************************************************)
MaxBatchMessages == 3    \* largest batching.message_number explored
MaxBatchBytes == 3       \* largest batching.size explored
MaxMessageBytes == 2     \* largest serialized size of one envelope
MaxTimeout == 5          \* largest timeout of the configuration

\* what the batching sender leaves alone
BatchFrame == <<group, su, lc, ck>>

BatchConfigurations ==
    [message_number        : 1 .. MaxBatchMessages,
     size                  : 1 .. MaxBatchBytes,
     lower_timeout         : {1},
     upper_timeout         : 1 .. MaxTimeout,
     stream_sender_timeout : 1 .. 2]

calculate_timeout_uncapped(timeout_flag, timeout, config) ==
    IF timeout_flag THEN config.lower_timeout ELSE timeout * 2

calculate_timeout(timeout_flag, timeout, config) ==
    IF timeout_flag
    THEN config.lower_timeout
    ELSE IF timeout * 2 <= config.upper_timeout
         THEN timeout * 2
         ELSE config.upper_timeout

\* buffered_bytes > configuration.batching.size
BytesOver_inclusive(buffered_bytes, size) == buffered_bytes >= size

BytesOver(buffered_bytes, size) == buffered_bytes > size

check_buffer_flush(b, error) ==
    LET flag == IF error /\ b.sender_timeout_flag THEN FALSE
                ELSE b.sender_timeout_flag
    IN IF \/ b.buffered_messages >= b.cfg.message_number
          \/ BytesOver(b.buffered_bytes, b.cfg.size)
          \/ (error /\ b.buffered_messages > 0)
       THEN [b EXCEPT !.sender_timeout_flag = flag,
                      !.flushed = @ + 1,
                      !.buffered_messages = 0,
                      !.buffered_bytes = 0]
       ELSE [b EXCEPT !.sender_timeout_flag = flag,
                      !.timeout = IF error
                                  THEN calculate_timeout(flag, b.timeout, b.cfg)
                                  ELSE @]

Sender_new(config) ==
    [cfg                 |-> config,
     buffered_messages   |-> 0,
     buffered_bytes      |-> 0,
     sender_timeout_flag |-> TRUE,
     timeout             |-> config.stream_sender_timeout,
     flushed             |-> 0,
     last                |-> [event |-> "start", bytes |-> 0,
                              timeout |-> config.stream_sender_timeout],
     running             |-> TRUE]

\* variant of the Ok arm that leaves the timeout as it is
TimeoutAfterMessage_kept(sender_timeout_flag, timeout, config) == timeout

\* the Ok arm of the loop: back to the baseline after a NO MESSAGES period
TimeoutAfterMessage(sender_timeout_flag, timeout, config) ==
    IF sender_timeout_flag THEN timeout ELSE config.stream_sender_timeout

\* recv_timeout returns a message whose envelope takes `bytes` bytes; last
\* records the event and the timeout the call was made with
BatchMessage(bytes) ==
    /\ bs.running
    /\ LET b1 == [bs EXCEPT !.sender_timeout_flag = TRUE,
                            !.timeout = TimeoutAfterMessage(
                                            bs.sender_timeout_flag, @, bs.cfg),
                            !.buffered_messages = @ + 1,
                            !.buffered_bytes = @ + bytes,
                            !.flushed = 0,
                            !.last = [event |-> "message", bytes |-> bytes,
                                      timeout |-> bs.timeout]]
       IN bs' = check_buffer_flush(b1, FALSE)
    /\ UNCHANGED BatchFrame

\* recv_timeout returns Err(Timeout)
BatchTimeout ==
    /\ bs.running
    /\ LET b1 == [bs EXCEPT !.flushed = 0,
                            !.last = [event |-> "timeout", bytes |-> 0,
                                      timeout |-> bs.timeout]]
       IN bs' = check_buffer_flush(check_buffer_flush(b1, TRUE), FALSE)
    /\ UNCHANGED BatchFrame

\* recv_timeout returns Err(Disconnected): Close, break
BatchDisconnected ==
    /\ bs.running
    /\ bs' = [bs EXCEPT !.running = FALSE, !.flushed = 0,
                        !.last = [event |-> "disconnected", bytes |-> 0,
                                  timeout |-> bs.timeout]]
    /\ UNCHANGED BatchFrame

InitBatch ==
    /\ InitGroup(2, "graph", TRUE)
    /\ su = Parked
    /\ lc = Parked
    /\ \E config \in BatchConfigurations : bs = Sender_new(config)
    /\ ck = Parked

NextBatch ==
    \/ \E bytes \in 1 .. MaxMessageBytes : BatchMessage(bytes)
    \/ BatchTimeout
    \/ BatchDisconnected

SpecBatch == InitBatch /\ [][NextBatch]_vars

Doubled(b) ==
    IF b.timeout * 2 <= b.cfg.upper_timeout THEN b.timeout * 2
    ELSE b.cfg.upper_timeout

MaxAckSends == 7     \* send() calls in an arena run: one more than 3N for N = 2

\* arena slots that hold a node: issued and not handed back by remove
LiveNodes(e) ==
    Len(e.G.nodes)
        - Cardinality({i \in 1 .. Len(e.G.available_indexes) :
                          e.G.available_indexes[i] < Len(e.G.nodes)})

AckSend(p) ==
    /\ Prompt
    /\ Sends < MaxAckSends
    /\ SendBy(p)

\* recv() of an item, followed at once by tcbstable when it is a Stable
ClientRecvAck(p) ==
    /\ rd[p] < Len(eng[p].client)
    /\ LET message == eng[p].client[rd[p] + 1] IN
          /\ cli' = [cli EXCEPT ![p] = GraphClient_handle_delivery(@, message)]
          /\ mq' = IF message.type = "Stable"
                   THEN [mq EXCEPT ![p] = Append(@, [type |-> "Stable",
                                                      dot |-> message.dot])]
                   ELSE mq
    /\ rd' = [rd EXCEPT ![p] = @ + 1]
    /\ UNCHANGED <<n, kind, net, eng, sent, toAck, dup, aux>>

InitAck == InitCfg(2, "graph", TRUE)

NextAck ==
    \/ \E p \in Peers : AckSend(p)
    \/ \E p \in Peers : ClientRecvAck(p)
    \/ \E p \in Peers : DispatchClient(p)
    \/ \E p \in Peers, k \in Peers : PromptPeer(p, k)

SpecAck == InitAck /\ [][NextAck]_vars

\* every sent dot is delivered everywhere and nothing is left in a queue
Quiescent ==
    /\ \A p \in Peers : mq[p] = <<>> /\ rd[p] = Len(eng[p].client)
    /\ \A c \in DOMAIN net : net[c] = <<>>
    /\ \A p \in Peers : \A d \in DOMAIN sent : d[1] # p => d \in DeliveredAt(p)


\* the dots that have a node in the arena of p
LiveDots(p) == DOMAIN eng[p].dot_to_index_map

\* the arena starts with 3 * peer_number free slots
ArenaCapacity(nn) == 3 * nn

\* C19: with prompt acks the live arena nodes of a peer never exceed 3N,
\* whatever the number of dots sent, and once every sent dot is delivered
\* everywhere and all acks are processed the arena holds no live node.
C19_ArenaBounded ==
    \A p \in Peers :
        /\ LiveNodes(eng[p]) <= ArenaCapacity(n)
        /\ Quiescent => LiveNodes(eng[p]) = 0

\* C19 as the code has it: the live nodes of a peer are the dots with an
\* entry in its dot index, their number never exceeds the number of dots
\* sent, and once every sent dot is delivered everywhere and all acks are
\* processed the arena holds exactly the dots not reported Stable at that
\* peer, of which there is at least one as soon as a dot was sent.
C19_ArenaHoldsUnstable ==
    \A p \in Peers :
        /\ LiveNodes(eng[p]) = Cardinality(LiveDots(p))
        /\ LiveNodes(eng[p]) <= Cardinality(DOMAIN sent)
        /\ Quiescent => /\ LiveDots(p) = (DOMAIN sent) \ StableAt(p)
                        /\ Sends > 0 => LiveNodes(eng[p]) > 0

\* all dots are sent and delivered, acks are processed; one peer has had
\* nodes deleted, yet a peer holds more than 3N live nodes
C19_Witness ==
    /\ Quiescent
    /\ Sends = MaxAckSends
    /\ \E p \in Peers : StableAt(p) # {} /\ LiveNodes(eng[p]) < Sends
    /\ \E p \in Peers : LiveNodes(eng[p]) > ArenaCapacity(n)


(***************************************************************************)
(* The causality checker (causality_checker.rs).  A dot sequence entry is  *)
(* a record [type, dot, context].  The checker state c holds the input     *)
(* sequences, the causal graph as dot -> predecessor dots (its domain is   *)
(* the key set of dot_to_index_map), the version vectors, the cursors, the *)
(* version matrices, the sender_bits of the Delivery being resolved and    *)
(* the error found: "none", an error kind, or "Panic" for a failed         *)
(* expect/assert.                                                          *)
(***************************************************************************)
CheckPeers == 2      \* peer_number of the checked traces
MaxCounter == 2      \* largest counter of a dot in a trace
MaxTraceLen == 2     \* longest dot sequence of one peer

\* what the checker leaves alone
CheckFrame == <<group, su, lc, bs>>

CheckIds == 0 .. (CheckPeers - 1)

CheckDots == CheckIds \X (1 .. MaxCounter)

CheckContexts == {<<>>} \cup {<<d>> : d \in CheckIds \X {1}}

CheckEntries ==
    [type : {"Send"}, dot : CheckDots, context : CheckContexts]
        \cup [type : {"Delivery", "Stable"}, dot : CheckDots, context : {<<>>}]

CheckTraces == UNION {[1 .. l -> CheckEntries] : l \in 0 .. MaxTraceLen}

\* F applied to value, with value computed once however often F reads it
Once(value, F(_)) == CHOOSE y \in {F(x) : x \in {value}} : TRUE

\* the error fields while there is no error
NoPlace ==
    [current_dot |-> <<0, 0>>, current_peer |-> 0, current_peer_dot_sequence_index |-> 0]

Checker_new(peer_number, peer_dot_sequences, graph_implementation) ==
    [seqs |-> peer_dot_sequences,
     graph |-> graph_implementation,
     global_causal_dag |-> EmptyMap,
     peer_version_vectors |-> [i \in 1 .. peer_number |-> VersionVector_new(peer_number)],
     dot_version_vector_map |-> EmptyMap,
     peer_dot_sequence_indexes |-> Zeros(peer_number),
     peer_dot_sequence_prev_indexes |-> Zeros(peer_number),
     peer_version_matrices |->
         [i \in 1 .. peer_number |->
             [r \in 1 .. peer_number |-> VersionVector_new(peer_number)]],
     sender_bits |-> {},
     error |-> "none",
     at |-> NoPlace]

\* CausalityCheckerError::new: the kind with current_dot, current_peer and
\* current_peer_dot_sequence_index
Fail(c, error_kind, current_dot, current_peer, index) ==
    [c EXCEPT !.error = error_kind,
              !.at = [current_dot |-> current_dot,
                      current_peer |-> current_peer,
                      current_peer_dot_sequence_index |-> index]]

\* a failed expect(), assert!() or panic!()
Panicked(c) == [c EXCEPT !.error = "Panic"]

\* VersionVector::cmp: a[i] >= b[i] for every i
cmp(a, b) == \A i \in 1 .. Len(a) : a[i] >= b[i]

\* VersionMatrix::check_stability
check_stability(matrix, dot_version_vector) ==
    \A i \in 1 .. Len(matrix) : cmp(matrix[i], dot_version_vector)

\* a variant that names the sender's predecessor by the upper vector
compare_dot_version_vectors_upper(c, lower_dot, upper_dot, lower_vv, upper_vv) ==
    LET rose == {i \in 0 .. (Len(lower_vv) - 1) : lower_vv[i + 1] < upper_vv[i + 1]}
        predecessors_dots == {<<i, upper_vv[i + 1]>> : i \in rose}
        panic == ~(predecessors_dots \subseteq DOMAIN c.global_causal_dag)
    IN [panic |-> panic,
        kept |-> IF panic THEN {} ELSE predecessors_dots \ {upper_dot}]

\* the predecessor dots read off the two version vectors, and those kept
\* after dropping a dot that is a predecessor of another one; a dot without
\* a graph index makes expect() fail
compare_dot_version_vectors(c, lower_dot, upper_dot, lower_vv, upper_vv) ==
    LET rose == {i \in 0 .. (Len(lower_vv) - 1) : lower_vv[i + 1] < upper_vv[i + 1]}
        own == {i \in rose : i = lower_dot[1] /\ i = upper_dot[1] /\ lower_dot[2] # 0}
        predecessors_dots ==
            {<<i, lower_vv[i + 1]>> : i \in own}
                \cup {<<i, upper_vv[i + 1]>> : i \in (rose \ own) \ {upper_dot[1]}}
        panic == ~(predecessors_dots \subseteq DOMAIN c.global_causal_dag)
    IN [panic |-> panic,
        kept |-> IF panic THEN {}
                 ELSE {d \in predecessors_dots :
                          ~\E t \in predecessors_dots \ {d} :
                               d \in c.global_causal_dag[t]}]

update_graph_dependencies(c, current_peer_dot_sequence, dot, context) ==
    LET current_sequence_index == c.peer_dot_sequence_indexes[dot[1] + 1]
        previous_sequence_index == c.peer_dot_sequence_prev_indexes[dot[1] + 1]
    IN IF previous_sequence_index < current_sequence_index
       THEN LET first == current_sequence_index > 0 /\ dot[2] = 1
                previous_dot ==
                    IF first THEN <<dot[1], 0>>
                    ELSE current_peer_dot_sequence[previous_sequence_index + 1].dot
            IN IF ~first /\ previous_dot \notin DOMAIN c.dot_version_vector_map
               THEN Panicked(c)
               ELSE LET previous_vv ==
                            IF first THEN VersionVector_new(Len(c.peer_version_vectors))
                            ELSE c.dot_version_vector_map[previous_dot]
                        r == compare_dot_version_vectors(
                                 c, previous_dot, dot, previous_vv,
                                 c.dot_version_vector_map[dot])
                        counter ==
                            IF c.graph
                            THEN Len(context)
                                     - Cardinality({d \in r.kept : SeqContains(context, d)})
                            ELSE 0
                    IN IF r.panic \/ counter # 0 THEN Panicked(c)
                       ELSE [c EXCEPT !.global_causal_dag[dot] = r.kept]
       ELSE IF previous_sequence_index # current_sequence_index
            THEN Panicked(c)
            ELSE c

\* returns the state and the bool of the source
handle_sender_delivered_message(c, current_peer_dot, current_peer_dot_sequence, context) ==
    IF current_peer_dot \notin DOMAIN c.global_causal_dag
    THEN LET id == current_peer_dot[1]
             dot_version_vector ==
                 [c.peer_version_vectors[id + 1] EXCEPT ![id + 1] = @ + 1]
             c1 == [c EXCEPT !.global_causal_dag = MapInsert(@, current_peer_dot, {}),
                             !.peer_version_vectors[id + 1] = dot_version_vector,
                             !.dot_version_vector_map =
                                 MapInsert(@, current_peer_dot, dot_version_vector)]
             c2 == update_graph_dependencies(c1, current_peer_dot_sequence,
                                             current_peer_dot, context)
         IN [c |-> IF c2.error # "none" THEN c2
                   ELSE [c2 EXCEPT !.peer_dot_sequence_prev_indexes[id + 1] =
                                       c2.peer_dot_sequence_indexes[id + 1],
                                   !.peer_version_matrices[id + 1][id + 1] =
                                       dot_version_vector],
             ok |-> TRUE]
    ELSE [c |-> c, ok |-> FALSE]

handle_peer_delivered_message(c, i, current_peer_dot) ==
    IF /\ current_peer_dot \in DOMAIN c.dot_version_vector_map
       /\ compare_version_vectors(current_peer_dot[1], c.peer_version_vectors[i + 1],
                                  c.dot_version_vector_map[current_peer_dot])
    THEN LET peer_version_vector ==
                 [c.peer_version_vectors[i + 1] EXCEPT ![current_peer_dot[1] + 1] = @ + 1]
             row == [c.peer_version_matrices[i + 1]
                        EXCEPT ![current_peer_dot[1] + 1] =
                                   c.dot_version_vector_map[current_peer_dot]]
         IN [c |-> [c EXCEPT !.peer_version_vectors[i + 1] = peer_version_vector,
                             !.peer_version_matrices[i + 1] =
                                 [row EXCEPT ![i + 1] = peer_version_vector]],
             ok |-> TRUE]
    ELSE [c |-> c, ok |-> FALSE]

\* "Panic" when the dot has no version vector (expect), else the bool
handle_stable_message(c, dot, i) ==
    IF dot \notin DOMAIN c.dot_version_vector_map THEN "Panic"
    ELSE IF check_stability(c.peer_version_matrices[i + 1],
                            c.dot_version_vector_map[dot])
         THEN "true" ELSE "false"

Advance(c, i) == [c EXCEPT !.peer_dot_sequence_indexes[i + 1] = @ + 1]

RECURSIVE handle_peer_dot(_, _)
RECURSIVE HandlePeerDotLoop(_, _, _)
\* the loop of handle_peer_dot over the sender's sequence, at position j (from 0)
HandlePeerDotLoop(c0, dot, j) ==
    Once(c0, LAMBDA c :
    LET id == dot[1]
        current_peer_dot_sequence == c.seqs[id + 1]
    IN IF j >= Len(current_peer_dot_sequence) THEN c
       ELSE LET entry == current_peer_dot_sequence[j + 1] IN
            CASE entry.type = "Send" ->
                    IF entry.dot[1] # id THEN Fail(c, "Delivery", entry.dot, id, j)
                    ELSE Once(handle_sender_delivered_message(
                                  c, entry.dot, current_peer_dot_sequence, entry.context),
                              LAMBDA r :
                            IF ~r.ok THEN Fail(c, "Delivery", entry.dot, id, j)
                            ELSE IF r.c.error # "none" THEN r.c
                            ELSE IF entry.dot = dot THEN Advance(r.c, id)
                            ELSE HandlePeerDotLoop(Advance(r.c, id), dot, j + 1))
              [] entry.type = "Delivery" ->
                    Once(IF entry.dot \in DOMAIN c.global_causal_dag THEN c
                         ELSE IF entry.dot[1] \in c.sender_bits
                              THEN Fail(c, "Delivery", entry.dot, id, j)
                              ELSE handle_peer_dot(
                                       [c EXCEPT !.sender_bits = @ \cup {entry.dot[1]}],
                                       entry.dot),
                         LAMBDA c1 :
                       IF c1.error # "none" THEN c1
                       ELSE Once(handle_peer_delivered_message(c1, id, entry.dot),
                                 LAMBDA r :
                               IF ~r.ok THEN Fail(c1, "Delivery", entry.dot, id, j)
                               ELSE HandlePeerDotLoop(Advance(r.c, id), dot, j + 1)))
              [] entry.type = "Stable" ->
                    LET r == handle_stable_message(c, entry.dot, id)
                    IN IF r = "Panic" THEN Panicked(c)
                       ELSE IF r = "false" THEN Fail(c, "Stability", entry.dot, id, j)
                       ELSE HandlePeerDotLoop(Advance(c, id), dot, j + 1))

handle_peer_dot(c, dot) ==
    HandlePeerDotLoop(c, dot, c.peer_dot_sequence_indexes[dot[1] + 1])

RECURSIVE CheckLoop(_, _, _)
\* the two loops of check_causal_delivery, at peer i and position j (from 0)
CheckLoop(c0, i, j) ==
    Once(c0, LAMBDA c :
    IF i >= Len(c.seqs) THEN c
    ELSE IF j >= Len(c.seqs[i + 1])
    THEN IF i + 1 >= Len(c.seqs) THEN c
         ELSE CheckLoop(c, i + 1, c.peer_dot_sequence_indexes[i + 2])
    ELSE LET entry == c.seqs[i + 1][j + 1] IN
         CASE entry.type = "Send" ->
                 IF entry.dot[1] # i THEN Fail(c, "Send", entry.dot, i, j)
                 ELSE Once(handle_sender_delivered_message(
                               c, entry.dot, c.seqs[i + 1], entry.context),
                           LAMBDA r :
                         IF ~r.ok THEN Fail(c, "Delivery", entry.dot, i, j)
                         ELSE IF r.c.error # "none" THEN r.c
                         ELSE CheckLoop(Advance(r.c, i), i, j + 1))
           [] entry.type = "Delivery" ->
                 Once(IF entry.dot \in DOMAIN c.global_causal_dag THEN c
                      ELSE handle_peer_dot([c EXCEPT !.sender_bits = {i}], entry.dot),
                      LAMBDA c1 :
                    IF c1.error # "none" THEN c1
                    ELSE Once(handle_peer_delivered_message(c1, i, entry.dot),
                              LAMBDA r :
                            IF ~r.ok THEN Fail(c1, "Stability", entry.dot, i, j)
                            ELSE CheckLoop(Advance(r.c, i), i, j + 1)))
           [] entry.type = "Stable" ->
                 LET r == handle_stable_message(c, entry.dot, i)
                 IN IF r = "Panic" THEN Panicked(c)
                    ELSE IF r = "false" THEN Fail(c, "Stability", entry.dot, i, j)
                    ELSE CheckLoop(Advance(c, i), i, j + 1))

\* the result: "Ok" with the graph, or the kind of the CausalityCheckerError
\* with its fields and the graph built so far, or "Panic"
check_causal_delivery(peer_number, peer_dot_sequences, graph_implementation) ==
    Once(CheckLoop(Checker_new(peer_number, peer_dot_sequences, graph_implementation),
                   0, 0),
         LAMBDA c :
       [verdict |-> IF c.error = "none" THEN "Ok" ELSE c.error,
        at |-> c.at,
        global_causal_dag |-> c.global_causal_dag])

InitChecker ==
    /\ InitGroup(CheckPeers, "graph", TRUE)
    /\ su = Parked
    /\ lc = Parked
    /\ bs = Parked
    /\ ck \in [seqs : [1 .. CheckPeers -> CheckTraces],
               graph : BOOLEAN,
               verdict : {"none"},
               at : {NoPlace},
               global_causal_dag : {EmptyMap}]

\* a call of check_causal_delivery on the recorded sequences
RunChecker ==
    /\ ck.verdict = "none"
    /\ \E result \in {check_causal_delivery(Len(ck.seqs), ck.seqs, ck.graph)} :
          ck' = [ck EXCEPT !.verdict = result.verdict,
                           !.at = result.at,
                           !.global_causal_dag = result.global_causal_dag]
    /\ UNCHANGED CheckFrame

NextChecker == RunChecker

SpecChecker == InitChecker /\ [][NextChecker]_vars


\* positions (from 1) of the entries of peer i (from 0) with this type and dot
EntryPositions(seqs, i, type, d) ==
    {k \in 1 .. Len(seqs[i + 1]) : seqs[i + 1][k].type = type /\ seqs[i + 1][k].dot = d}

TraceIds(seqs) == 0 .. (Len(seqs) - 1)

SentDots(seqs) ==
    {d \in CheckDots : \E i \in TraceIds(seqs) : EntryPositions(seqs, i, "Send", d) # {}}

\* m1 -> m2 directly: same sender and smaller counter, or m1 in the context of m2
Precedes(seqs) ==
    {m \in CheckDots \X CheckDots :
        \/ m[1][1] = m[2][1] /\ m[1][2] < m[2][2]
        \/ \E i \in TraceIds(seqs) : \E k \in EntryPositions(seqs, i, "Send", m[2]) :
               SeqContains(seqs[i + 1][k].context, m[1])}

RECURSIVE TransitiveClosure(_)
TransitiveClosure(R) ==
    LET S == R \cup {m \in CheckDots \X CheckDots :
                        \E b \in CheckDots : <<m[1], b>> \in R /\ <<b, m[2]>> \in R}
    IN IF S = R THEN R ELSE TransitiveClosure(S)

\* (P1) a peer that delivers m1 and m2 with m1 -> m2 delivers m1 first
CausalSafety(seqs) ==
    \A m \in TransitiveClosure(Precedes(seqs)) : \A i \in TraceIds(seqs) :
        m[1] # m[2] =>
        \A k1 \in EntryPositions(seqs, i, "Delivery", m[1]) :
            \A k2 \in EntryPositions(seqs, i, "Delivery", m[2]) : k1 < k2

\* (P2) every sent dot is delivered exactly once by every other peer
NoLoss(seqs) ==
    \A i \in TraceIds(seqs) : \A k \in 1 .. Len(seqs[i + 1]) :
        seqs[i + 1][k].type = "Send" =>
            \A j \in TraceIds(seqs) \ {i} :
                Cardinality(EntryPositions(seqs, j, "Delivery", seqs[i + 1][k].dot)) = 1

\* (P4) a dot is marked stable at a peer only after that peer has sent or
\* delivered it, and every peer but its sender delivers it
StabilityCorrect(seqs) ==
    \A i \in TraceIds(seqs) : \A k \in 1 .. Len(seqs[i + 1]) :
        seqs[i + 1][k].type = "Stable" =>
            LET d == seqs[i + 1][k].dot IN
            /\ \E h \in EntryPositions(seqs, i, IF d[1] = i THEN "Send" ELSE "Delivery", d) :
                   h < k
            /\ \A j \in TraceIds(seqs) \ {d[1]} : EntryPositions(seqs, j, "Delivery", d) # {}

Respects(seqs) == CausalSafety(seqs) /\ NoLoss(seqs) /\ StabilityCorrect(seqs)

\* sequences a group can record: a peer sends its own dots with counters
\* 1, 2, ... in order, delivers and marks stable only dots that another peer
\* sent, and a context names dots this peer sent or delivered before
Recordable(seqs) ==
    \A i \in TraceIds(seqs) : \A k \in 1 .. Len(seqs[i + 1]) :
        LET entry == seqs[i + 1][k]
            earlier == {seqs[i + 1][h].dot : h \in 1 .. (k - 1)}
        IN CASE entry.type = "Send" ->
                   /\ entry.dot[1] = i
                   /\ entry.dot[2] =
                          1 + Cardinality({h \in 1 .. (k - 1) : seqs[i + 1][h].type = "Send"})
                   /\ SeqToSet(entry.context) \subseteq earlier
             [] entry.type = "Delivery" ->
                   entry.dot[1] # i /\ entry.dot \in SentDots(seqs)
             [] entry.type = "Stable" -> entry.dot \in SentDots(seqs)

\* C20: once check_causal_delivery has returned on sequences a group can
\* record, its result is Ok if and only if the dot sequences respect causal delivery order (P1), delivery
\* of every sent dot by every other peer exactly once (P2) and stability
\* correctness (P4).
C20_CheckerSound ==
    (ck # Parked /\ ck.verdict # "none" /\ Recordable(ck.seqs))
        => ((ck.verdict = "Ok") <=> Respects(ck.seqs))


(***************************************************************************)
(* Dot sequences with an inverted delivery: peer 0 sends (0,1) then (0,2), *)
(* and peer 1 records Delivery (0,2) before Delivery (0,1), after its own  *)
(* first sends and around other entries.                                   *)
(***************************************************************************)
SendEntry(d, context) == [type |-> "Send", dot |-> d, context |-> context]

DeliveryEntry(d) == [type |-> "Delivery", dot |-> d, context |-> <<>>]

StableEntry(d) == [type |-> "Stable", dot |-> d, context |-> <<>>]

\* what peer 1 may record between and after the two deliveries
InversionFill ==
    {<<>>} \cup {<<e>> : e \in {SendEntry(<<1, 1>>, <<>>), SendEntry(<<1, 2>>, <<>>),
                               DeliveryEntry(<<0, 1>>), DeliveryEntry(<<0, 2>>),
                               StableEntry(<<0, 1>>), StableEntry(<<0, 2>>)}}

\* the sends of peer 1 before the first delivery
InversionOwnSends ==
    {<<>>, <<SendEntry(<<1, 1>>, <<>>)>>,
     <<SendEntry(<<1, 1>>, <<>>), SendEntry(<<1, 2>>, <<<<1, 1>>>>)>>}

InversionSequences ==
    {<< <<SendEntry(<<0, 1>>, <<>>), SendEntry(<<0, 2>>, context)>> \o tail,
        own \o <<DeliveryEntry(<<0, 2>>)>> \o mid \o <<DeliveryEntry(<<0, 1>>)>> \o post >> :
        <<context, tail, own, mid, post>> \in
            {<<>>, <<<<0, 1>>>>} \X {<<>>, <<DeliveryEntry(<<1, 1>>)>>}
                \X InversionOwnSends \X InversionFill \X InversionFill}

InitInversion ==
    /\ InitGroup(CheckPeers, "graph", TRUE)
    /\ su = Parked
    /\ lc = Parked
    /\ bs = Parked
    /\ ck \in [seqs : InversionSequences,
               graph : BOOLEAN,
               verdict : {"none"},
               at : {NoPlace},
               global_causal_dag : {EmptyMap}]

SpecInversion == InitInversion /\ [][NextChecker]_vars

\* index (from 0) of the first entry of peer i with this type and dot
FirstIndex(seqs, i, type, d) ==
    (CHOOSE k \in EntryPositions(seqs, i, type, d) :
        \A h \in EntryPositions(seqs, i, type, d) : k <= h) - 1

\* C21: when peer 0 sends (0,1) then (0,2) and peer 1's sequence has
\* Delivery (0,2) before Delivery (0,1), check_causal_delivery returns an
\* error of kind Delivery whose dot is (0,2), whose peer is 1 and whose
\* sequence index is the position of that Delivery (0,2) in peer 1's sequence.
C21_InversionIsDeliveryError ==
    (ck # Parked /\ ck.verdict # "none")
        => /\ ck.verdict = "Delivery"
           /\ ck.at = [current_dot |-> <<0, 2>>,
                       current_peer |-> 1,
                       current_peer_dot_sequence_index |->
                           FirstIndex(ck.seqs, 1, "Delivery", <<0, 2>>)]


(***************************************************************************)
(* The dot sequences of examples/causality_checker.rs, and the sequences   *)
(* that record the same sends and deliveries of each peer in another       *)
(* order.                                                                  *)
(***************************************************************************)
ExampleSends(p) ==
    IF p = 0
    THEN <<SendEntry(<<0, 1>>, <<>>), SendEntry(<<0, 2>>, <<<<0, 1>>>>),
           SendEntry(<<0, 3>>, <<<<0, 2>>>>)>>
    ELSE <<SendEntry(<<1, 1>>, <<>>), SendEntry(<<1, 2>>, <<<<1, 1>>>>)>>

ExampleDeliveries(p) ==
    IF p = 0
    THEN <<DeliveryEntry(<<1, 1>>), DeliveryEntry(<<1, 2>>)>>
    ELSE <<DeliveryEntry(<<0, 1>>), DeliveryEntry(<<0, 2>>), DeliveryEntry(<<0, 3>>)>>

\* one_peer_sequence and another_peer_sequence
ExampleSequences ==
    <<ExampleSends(0) \o ExampleDeliveries(0), ExampleSends(1) \o ExampleDeliveries(1)>>

RECURSIVE Interleavings(_, _)
Interleavings(a, b) ==
    IF a = <<>> THEN {b}
    ELSE IF b = <<>> THEN {a}
    ELSE {<<Head(a)>> \o t : t \in Interleavings(Tail(a), b)}
             \cup {<<Head(b)>> \o t : t \in Interleavings(a, Tail(b))}

InitExample ==
    /\ InitGroup(CheckPeers, "graph", TRUE)
    /\ su = Parked
    /\ lc = Parked
    /\ bs = Parked
    /\ ck \in [seqs : {<<a, b>> : <<a, b>> \in
                          Interleavings(ExampleSends(0), ExampleDeliveries(0))
                              \X Interleavings(ExampleSends(1), ExampleDeliveries(1))},
               graph : BOOLEAN,
               verdict : {"none"},
               at : {NoPlace},
               global_causal_dag : {EmptyMap}]

SpecExample == InitExample /\ [][NextChecker]_vars

\* the edges pred -> dot of a graph kept as dot -> predecessor dots
Edges(dag) == {<<pred, d>> : <<pred, d>> \in {e \in (DOMAIN dag) \X (DOMAIN dag) : e[1] \in dag[e[2]]}}

\* C22: for the S1 sequences (peer 0: Send (0,1), Send (0,2) ctx [(0,1)],
\* Send (0,3) ctx [(0,2)], Delivery (1,1), Delivery (1,2); peer 1: Send (1,1),
\* Send (1,2) ctx [(1,1)], Delivery (0,1), Delivery (0,2), Delivery (0,3))
\* check_causal_delivery(2, sequences, true) returns Ok and the graph has
\* exactly the edges (0,1)->(0,2), (0,2)->(0,3) and (1,1)->(1,2).
C22_ExampleGraph ==
    (ck # Parked /\ ck.verdict # "none" /\ ck.seqs = ExampleSequences /\ ck.graph)
        => /\ ck.verdict = "Ok"
           /\ DOMAIN ck.global_causal_dag =
                  {<<0, 1>>, <<0, 2>>, <<0, 3>>, <<1, 1>>, <<1, 2>>}
           /\ Edges(ck.global_causal_dag) =
                  {<< <<0, 1>>, <<0, 2>> >>, << <<0, 2>>, <<0, 3>> >>,
                   << <<1, 1>>, <<1, 2>> >>}

C22_Witness ==
    /\ ck # Parked
    /\ ck.seqs = ExampleSequences
    /\ ck.graph
    /\ ck.verdict = "Ok"
    /\ Cardinality(Edges(ck.global_causal_dag)) = 3


(***************************************************************************)
(* What one engine step hands to the client: the items appended to the     *)
(* client channel of p in this step, and the version vector the engine     *)
(* holds when it emits the i-th of them.                                   *)
(***************************************************************************)
Emitted(p) == SubSeq(eng'[p].client, Len(eng[p].client) + 1, Len(eng'[p].client))

\* how many of the first i items are deliveries from sender k
DeliveriesFrom(items, i, k) ==
    Cardinality({h \in 1 .. i : items[h].type = "Delivery" /\ items[h].sender_id = k})

\* V just before the i-th item is emitted
VBefore(p, i) ==
    [k \in 1 .. n |-> eng[p].V[k] + DeliveriesFrom(Emitted(p), i - 1, k - 1)]

\* C23: vector-clock engine: whenever it emits a Delivery for message m from
\* sender j, in the state just before the delivery m.vv[j] = V[j] + 1 and
\* m.vv[k] <= V[k] for every k other than j; the delivery then increments
\* V[j] by exactly 1.
C23_DeliverableWhenDelivered ==
    [][kind = "vv" =>
          \A p \in Peers :
              /\ \A i \in 1 .. Len(Emitted(p)) :
                    Emitted(p)[i].type = "Delivery" =>
                        LET j == Emitted(p)[i].sender_id
                            vv == Emitted(p)[i].version_vector
                        IN /\ vv[j + 1] = VBefore(p, i)[j + 1] + 1
                           /\ \A k \in Peers \ {j} : vv[k + 1] <= VBefore(p, i)[k + 1]
              /\ \A k \in Peers \ {p} :
                    eng'[p].V[k + 1] =
                        eng[p].V[k + 1] + DeliveriesFrom(Emitted(p), Len(Emitted(p)), k)
    ]_vars

\* a vector-clock engine has delivered a message of one sender and then a
\* message of another sender that had delivered the first
C23_Witness ==
    /\ kind = "vv"
    /\ \E p \in Peers : \E i \in 1 .. Len(eng[p].client) : \E h \in 1 .. (i - 1) :
          /\ eng[p].client[h].type = "Delivery"
          /\ eng[p].client[i].type = "Delivery"
          /\ eng[p].client[h].sender_id # eng[p].client[i].sender_id
          /\ eng[p].client[i].version_vector[eng[p].client[h].sender_id + 1]
                 >= eng[p].client[h].version_vector[eng[p].client[h].sender_id + 1]


(***************************************************************************)
(* A group of four on the vector-clock engine, where the sends happen in   *)
(* the order of ChainOrder and clients and dispatchers are prompt as in    *)
(* SpecVV3: a peer can hold a message of peer 2 that waits for one of peer *)
(* 1 that waits for one of peer 0.                                         *)
(***************************************************************************)
ChainPeers == 4

ChainOrder == <<0, 1, 2, 0>>

ChainSend(p) ==
    /\ Prompt
    /\ Sends < Len(ChainOrder)
    /\ p = ChainOrder[Sends + 1]
    /\ SendBy(p)

InitChain == \E tr \in BOOLEAN : InitCfg(ChainPeers, "vv", tr)

NextChain ==
    \/ \E p \in Peers : ChainSend(p)
    \/ \E p \in Peers : ClientRecv(p)
    \/ \E p \in Peers : DispatchClient(p)
    \/ \E p \in Peers, k \in Peers : PromptPeer(p, k)

SpecChain == InitChain /\ [][NextChain]_vars

\* C24: vector-clock engine: after every receive step and every dequeue
\* step, no entry (j, m) left in the delivery queue DQ is deliverable against
\* the current V (m.vv[j] = V[j] + 1 and m.vv[k] <= V[k] elsewhere): the
\* drain has repeated its passes until a full pass delivered nothing.
C24_QueueHoldsNoDeliverable ==
    kind = "vv" =>
        \A p \in Peers : \A i \in 1 .. Len(eng[p].DQ) :
            LET j == eng[p].DQ[i].j
                vv == eng[p].DQ[i].message.version_vector
            IN ~(/\ vv[j + 1] = eng[p].V[j + 1] + 1
                 /\ \A k \in Peers \ {j} : vv[k + 1] <= eng[p].V[k + 1])

\* a drain has emptied a queue of two in two passes: the engine of peer 3
\* delivered a message of peer 0, then one of peer 1, then one of peer 2,
\* each needing the one before
C24_Witness ==
    /\ kind = "vv"
    /\ n = ChainPeers
    /\ eng[3].DQ = <<>>
    /\ Len(eng[3].client) >= 3
    /\ \E i \in 1 .. Len(eng[3].client) - 2 :
          /\ \A h \in 0 .. 2 : /\ eng[3].client[i + h].type = "Delivery"
                               /\ eng[3].client[i + h].sender_id = h
          /\ eng[3].client[i + 1].version_vector[1] >= 1
          /\ eng[3].client[i + 2].version_vector[2] >= 1


(***************************************************************************)
(* Messages held back by the graph engine.                                 *)
(***************************************************************************)
\* p has delivered dot d, or sent it itself
DeliveredLocally(p, d) ==
    d \in DeliveredAt(p) \/ (d[1] = p /\ d[2] <= eng[p].V[p + 1])

\* the dots of the live nodes of p in stage RCV
Held(p) ==
    {d \in DOMAIN eng[p].dot_to_index_map :
        GNode(eng[p], eng[p].dot_to_index_map[d]).stage = "RCV"}

\* C25: graph engine: a received message is held in stage RCV, undelivered,
\* exactly as long as some dot of its context has not been delivered
\* locally: after every engine step a node in stage RCV is undelivered and
\* has a context dot that is not delivered, and a message handed to receive
\* is either delivered or held in stage RCV, so it was delivered in the step
\* that delivered its last missing predecessor.
C25_HeldWhileContextMissing ==
    kind = "graph" =>
        \A p \in Peers :
            /\ \A d \in Held(p) :
                  /\ d \notin DeliveredAt(p)
                  /\ \E c \in SeqToSet(sent[d].msg.context) : ~DeliveredLocally(p, c)
            /\ \A k \in Peers \ {p} : \A message \in Received(p, k) :
                  message.dot \in DeliveredAt(p) \cup Held(p)

\* a graph engine has delivered a message of one peer right after the
\* message of another peer that its context names
C25_Witness ==
    /\ kind = "graph"
    /\ \E p \in Peers : \E i \in 2 .. Len(eng[p].client) :
          /\ eng[p].client[i - 1].type = "Delivery"
          /\ eng[p].client[i].type = "Delivery"
          /\ eng[p].client[i - 1].dot[1] # eng[p].client[i].dot[1]
          /\ eng[p].client[i - 1].dot[1] # p
          /\ SeqContains(eng[p].client[i].context, eng[p].client[i - 1].dot)


(***************************************************************************)
(* The stable vector of the vector-clock engine.                           *)
(***************************************************************************)
\* the minimum of column k (from 0) of M over all rows
ColumnMin(e, k) ==
    CHOOSE m \in {e.M[r][k + 1] : r \in 1 .. e.peer_number} :
        \A r \in 1 .. e.peer_number : m <= e.M[r][k + 1]

\* C26: vector-clock engine with stability tracking on: after every engine
\* step, for every column k, SV[k] equals the minimum of M[r][k] over all
\* rows r, and the row recorded in M_entry_row_num[k] is a row that attains
\* that minimum.
C26_SVIsColumnMin ==
    kind = "vv" =>
        \A p \in Peers :
            (eng[p].track /\ ~eng[p].panic) =>
                \A k \in 0 .. (n - 1) :
                    /\ eng[p].SV[k + 1] = ColumnMin(eng[p], k)
                    /\ eng[p].M[eng[p].M_entry_row_num[k + 1] + 1][k + 1]
                           = ColumnMin(eng[p], k)


(***************************************************************************)
(* The vector-clock engines of a group with stability tracking on, each    *)
(* next to an engine of the simpler form that is handed the same dequeue   *)
(* and receive calls.                                                      *)
(***************************************************************************)
Recomputing(e) == [e EXCEPT !.recompute_all = TRUE]

InitBoth ==
    /\ \E nn \in 2 .. MaxPeers : InitGroup(nn, "vv", TRUE)
    /\ su = Parked
    /\ lc = Parked
    /\ bs = Parked
    /\ ck = [state |-> "both", eng |-> [p \in Peers |-> Recomputing(eng[p])]]

BothFrame == <<n, kind, cli, rd, sent, toAck, dup, su, lc, bs>>

BothDispatchClient(p) ==
    /\ Running(p)
    /\ mq[p] # <<>>
    /\ LET message == WireMessage(mq[p][1])
           e1 == VV_dequeue(eng[p], message)
       IN /\ eng' = [eng EXCEPT ![p] = e1]
          /\ ck' = [ck EXCEPT !.eng[p] = VV_dequeue(@, message)]
          /\ net' = IF e1.panic THEN net ELSE Broadcast(p, message)
    /\ mq' = [mq EXCEPT ![p] = Tail(@)]
    /\ UNCHANGED BothFrame

BothDispatchPeer(p, k) ==
    /\ Running(p)
    /\ k # p
    /\ net[<<k, p>>] # <<>>
    /\ LET message == net[<<k, p>>][1] IN
          /\ eng' = [eng EXCEPT ![p] = VV_receive(@, k, message)]
          /\ ck' = [ck EXCEPT !.eng[p] = VV_receive(@, k, message)]
    /\ net' = [net EXCEPT ![<<k, p>>] = Tail(@)]
    /\ UNCHANGED <<mq, BothFrame>>

NextBoth ==
    \/ \E p \in Peers : ClientSend(p)
    \/ \E p \in Peers : ClientRecv(p)
    \/ \E p \in Peers : BothDispatchClient(p)
    \/ \E p \in Peers, k \in Peers : BothDispatchPeer(p, k)

SpecBoth == InitBoth /\ [][NextBoth]_vars

\* no dispatcher has anything left to dequeue or to receive
Drained == (\A p \in Peers : mq[p] = <<>>) /\ (\A c \in DOMAIN net : net[c] = <<>>)

\* the Stable items of a client channel, in order
StableItems(client) == SelectSeq(client, LAMBDA item : item.type = "Stable")

\* C27: the vector-clock engine, which recomputes a column minimum only for
\* the columns whose recorded row is the peer j of the current update, emits
\* the same sequence of Stable notifications in every run as the form that
\* recomputes all column minima on every updatestability: when every
\* message sent has been dequeued and received everywhere, both have emitted
\* the same Stable items in the same order.
C27_SameStableSequence ==
    ("state" \in DOMAIN ck /\ ck.state = "both" /\ Drained) =>
        \A p \in Peers :
            StableItems(eng[p].client) = StableItems(ck.eng[p].client)

(***************************************************************************)
(* Node stages (graph/middleware/node.rs): SLT, RCV, DLV, STB in the order *)
(* of the enum.                                                            *)
(***************************************************************************)
\* variant of StageRank in which Stable comes before Delivered
StageRank_swapped(stage) ==
    CASE stage = "SLT" -> 0 [] stage = "RCV" -> 1 [] stage = "STB" -> 2
      [] stage = "DLV" -> 3

\* the position of a stage in the order of the enum
StageRank(stage) ==
    CASE stage = "SLT" -> 0 [] stage = "RCV" -> 1 [] stage = "DLV" -> 2
      [] stage = "STB" -> 3

\* the stage of the node of dot d in an engine that has one
StageOf(e, d) == GNode(e, e.dot_to_index_map[d]).stage

\* the dots whose node was handed to deletestable at p: with tracking on,
\* those the client took a Stable for and whose tcbstable the dispatcher has
\* taken from its queue; with tracking off, those delivered
RemovedDots(p) ==
    IF eng[p].track
    THEN {d \in {eng[p].client[i].dot : i \in 1 .. rd[p]} :
            /\ \E i \in 1 .. rd[p] :
                   eng[p].client[i].type = "Stable" /\ eng[p].client[i].dot = d
            /\ d \notin toAck[p]
            /\ ~\E i \in 1 .. Len(mq[p]) :
                   mq[p][i].type = "Stable" /\ mq[p][i].dot = d}
    ELSE {eng[p].client[i].dot : i \in 1 .. Len(eng[p].client)}

FreedIndexes(e) ==
    {e.G.available_indexes[i] : i \in 1 .. Len(e.G.available_indexes)}
        \cap (0 .. (Len(e.G.nodes) - 1))

\* the arena indexes of the nodes that dot_to_index_map names
LiveIndexes(e) == {e.dot_to_index_map[d] : d \in DOMAIN e.dot_to_index_map}

\* C29: in the graph engine, when the client acks only dots already reported
\* Stable (in any order) or stability is off, between dispatcher steps no
\* live node holds the freed arena index of a removed dot in its predecessor
\* list or in its successor list.
C29_NoStaleIndex ==
    kind = "graph" =>
        \A p \in Peers :
            ~eng[p].panic =>
                \A x \in LiveIndexes(eng[p]) :
                    /\ SeqToSet(GNode(eng[p], x).predecessors)
                           \cap FreedIndexes(eng[p]) = {}
                    /\ SeqToSet(GNode(eng[p], x).successors)
                           \cap FreedIndexes(eng[p]) = {}

(***************************************************************************)
(* ArrayMap on its own (graph/middleware/dag.rs): an arena built with any  *)
(* initial capacity, then any sequence of push and of remove of a live     *)
(* index.  live maps each index that push issued and remove has not taken  *)
(* back to the element pushed there; freed holds the indexes remove took   *)
(* back that no push has issued since; last describes the last call.       *)
(***************************************************************************)
MaxCapacity == 2     \* largest initial_capacity
MaxCalls == 6        \* push and remove calls in a run
MaxElement == 2      \* elements pushed are 1 .. MaxElement

InitArrayMap ==
    /\ InitGroup(CheckPeers, "graph", TRUE)
    /\ su = Parked
    /\ lc = Parked
    /\ bs = Parked
    /\ \E initial_capacity \in 0 .. MaxCapacity :
          ck = [state |-> "arraymap",
                am |-> ArrayMap_new(initial_capacity),
                live |-> EmptyMap,
                freed |-> {},
                calls |-> 0,
                failed |-> FALSE,
                last |-> [op |-> "new", index |-> 0, node |-> 0,
                          live |-> {}, freed |-> {}, len |-> 0,
                          available_indexes |-> <<>>]]

\* a call of push(node)
ArrayMapPush(node) ==
    /\ ck.calls < MaxCalls
    /\ ~ck.failed
    /\ LET r == ArrayMap_push(ck.am, node) IN
          ck' = [ck EXCEPT !.am = r.am,
                           !.live = MapInsert(@, r.index, node),
                           !.freed = @ \ {r.index},
                           !.calls = @ + 1,
                           !.last = [op |-> "push", index |-> r.index,
                                     node |-> node, live |-> DOMAIN ck.live,
                                     freed |-> ck.freed,
                                     len |-> Len(ck.am.nodes),
                                     available_indexes |->
                                         ck.am.available_indexes]]
    /\ UNCHANGED CheckFrame

\* a call of remove(index) for a live index
ArrayMapRemove(index) ==
    /\ ck.calls < MaxCalls
    /\ ~ck.failed
    /\ index \in DOMAIN ck.live
    /\ ArrayMap_remove_ok(ck.am, index)
    /\ ck' = [ck EXCEPT !.am = ArrayMap_remove(@, index),
                        !.live = MapRemove(@, index),
                        !.freed = @ \cup {index},
                        !.calls = @ + 1,
                        !.last = [op |-> "remove", index |-> index, node |-> 0,
                                  live |-> DOMAIN ck.live, freed |-> ck.freed,
                                  len |-> Len(ck.am.nodes),
                                  available_indexes |-> ck.am.available_indexes]]
    /\ UNCHANGED CheckFrame

NextArrayMap ==
    \/ \E node \in 1 .. MaxElement : ArrayMapPush(node)
    \/ \E index \in 0 .. MaxCalls : ArrayMapRemove(index)

SpecArrayMap == InitArrayMap /\ [][NextArrayMap]_vars

\* C30: over any sequence of push and remove in which remove is applied only
\* to live indexes, push returns an index that no other live element holds,
\* the element read at a live index is the one pushed there, and a push made
\* while some index is freed returns a freed index and leaves the length of
\* the array as it was.
C30_ArrayMapIndexes ==
    /\ ck.last.op = "push" =>
          /\ ck.last.index \notin ck.last.live
          /\ ck.last.freed # {} =>
                /\ ck.last.index \in ck.last.freed
                /\ Len(ck.am.nodes) = ck.last.len
    /\ \A index \in DOMAIN ck.live :
          /\ index < Len(ck.am.nodes)
          /\ ck.am.nodes[index + 1] = ck.live[index]

\* a push took a freed index while another element is live, in an arena
\* that has already grown past its initial capacity
C30_Witness ==
    /\ ck.last.op = "push"
    /\ ck.last.freed # {}
    /\ ck.last.live # {}
    /\ ck.am.available_indexes = <<>>
    /\ Len(ck.am.nodes) > MaxCapacity

(***************************************************************************)
(* ArrayMap with remove called on any index, live or not.  A failed        *)
(* expect() ends the thread: failed is set and no call follows.            *)
(***************************************************************************)
\* a call of remove(index) for any index
ArrayMapRemoveAny(index) ==
    /\ ck.calls < MaxCalls
    /\ ~ck.failed
    /\ LET last == [op |-> "remove", index |-> index, node |-> 0,
                    live |-> DOMAIN ck.live, freed |-> ck.freed,
                    len |-> Len(ck.am.nodes),
                    available_indexes |-> ck.am.available_indexes]
       IN IF ArrayMap_remove_ok(ck.am, index)
          THEN ck' = [ck EXCEPT !.am = ArrayMap_remove(@, index),
                                !.live = MapRemove(@, index),
                                !.freed = @ \cup {index},
                                !.calls = @ + 1,
                                !.last = last]
          ELSE ck' = [ck EXCEPT !.failed = TRUE, !.calls = @ + 1, !.last = last]
    /\ UNCHANGED CheckFrame

NextArrayMapAny ==
    \/ \E node \in 1 .. MaxElement : ArrayMapPush(node)
    \/ \E index \in 0 .. MaxCalls : ArrayMapRemoveAny(index)

SpecArrayMapAny == InitArrayMap /\ [][NextArrayMapAny]_vars

\* C31: remove(i) of an index that holds no live element (never issued, or
\* removed and not issued again) fails and leaves the free list as it was.
C31_RemoveChecksOccupied ==
    (ck.last.op = "remove" /\ ck.last.index \notin ck.last.live) =>
        /\ ck.failed
        /\ ck.am.available_indexes = ck.last.available_indexes

\* C32: graph client facade: the next-send context never holds two dots
\* with the same peer id, so it never holds more than N dots, however many
\* dots have been delivered.
C32_ContextOneDotPerPeer ==
    kind = "graph" =>
        \A p \in Peers :
            /\ \A i, j \in 1 .. Len(cli[p].context) :
                   i # j => cli[p].context[i][1] # cli[p].context[j][1]
            /\ Len(cli[p].context) <= n

\* a client holds one dot of every peer of the group, for one of them a later
\* dot than its first
C32_Witness ==
    /\ kind = "graph"
    /\ \E p \in Peers :
          /\ Len(cli[p].context) = n
          /\ \E i \in 1 .. Len(cli[p].context) : cli[p].context[i][2] >= 2

\* the dispatcher takes the head of its inbound queue in this step
DispatcherTakes == lc.inq # <<>> /\ lc'.inq = Tail(lc.inq)

\* C33: the dispatcher does not go on to its next event until every
\* peer-sender has dequeued the (barrier, bytes) items of the Client events
\* handled before: when it takes an event, every sender channel is empty.
C33_DispatcherWaitsForSenders ==
    [][DispatcherTakes => \A k \in Remote : lc.chan[k] = <<>>]_vars

\* C34: batching sender: right after it takes a message from its channel
\* its receive timeout is the baseline stream_sender_timeout, whatever the
\* timeout had grown to.
C34_TimeoutResetOnMessage ==
    (bs # Parked /\ bs.last.event = "message") =>
        bs.timeout = bs.cfg.stream_sender_timeout

\* a message arrived while the timeout stood at the cap, above the baseline
C34_Witness ==
    /\ bs # Parked
    /\ bs.last.event = "message"
    /\ bs.last.timeout = MaxTimeout
    /\ bs.cfg.stream_sender_timeout = 1
    /\ bs.timeout = 1

(***************************************************************************)
(* The delivery queue of the vector-clock engine.  A queue entry is named  *)
(* by its sender and its sender's counter.                                 *)
(***************************************************************************)
\* the names of the entries of a delivery queue, in queue order
QueueNames(DQ) ==
    [i \in 1 .. Len(DQ) |-> <<DQ[i].j, DQ[i].message.version_vector[DQ[i].j + 1]>>]

\* the names of the messages a client channel carries a Delivery for
DeliveredNames(client) ==
    {<<client[i].sender_id, client[i].version_vector[client[i].sender_id + 1]>> :
        i \in {k \in 1 .. Len(client) : client[k].type = "Delivery"}}

\* R[j] = V[j] + the entries of sender j in DQ, and the messages received
\* from j are, each once, either queued or delivered
QueueAccounts(e) ==
    LET names == QueueNames(e.DQ) IN
    /\ \A j \in (0 .. (e.peer_number - 1)) \ {e.peer_index} :
          /\ e.R[j + 1] = e.V[j + 1]
                 + Cardinality({i \in 1 .. Len(names) : names[i][1] = j})
          /\ {names[i][2] : i \in {k \in 1 .. Len(names) : names[k][1] = j}}
                 \cup {d[2] : d \in {x \in DeliveredNames(e.client) : x[1] = j}}
                 = 1 .. e.R[j + 1]
    /\ \A i, k \in 1 .. Len(names) : i # k => names[i] # names[k]
    /\ \A i \in 1 .. Len(names) : names[i] \notin DeliveredNames(e.client)

\* the entries of before that are still in after are there in the same order
KeepsOrder(before, after) ==
    \A i, k \in 1 .. Len(after) :
        i < k =>
            \A a, b \in 1 .. Len(before) :
                (before[a] = after[i] /\ before[b] = after[k]) => a < b

\* C35: vector-clock engine: after every engine step, for every remote peer
\* j, R[j] = V[j] + the number of DQ entries whose sender is j; compaction
\* of DQ loses and duplicates no queued message and keeps the retained
\* entries in their arrival order.
C35_QueueAccounting ==
    [][kind = "vv" =>
          \A p \in Peers :
              ~eng'[p].panic =>
                  /\ QueueAccounts(eng'[p])
                  /\ KeepsOrder(QueueNames(eng[p].DQ), QueueNames(eng'[p].DQ))
                  /\ \A i \in 1 .. Len(eng[p].DQ) :
                         QueueNames(eng[p].DQ)[i] \in
                             SeqToSet(QueueNames(eng'[p].DQ))
                                 \cup DeliveredNames(eng'[p].client)]_vars

\* a peer holds a queued message of a sender it has already delivered a
\* message of, behind an entry of another sender
C35_Witness ==
    /\ kind = "vv"
    /\ \E p \in Peers :
          /\ Len(eng[p].DQ) >= 1
          /\ Len(eng[p].client) >= 2
          /\ LET j == eng[p].DQ[Len(eng[p].DQ)].j IN eng[p].V[j + 1] >= 1

(***************************************************************************)
(* The keys of SMap (version_vector.rs updatestability, stabilize).        *)
(***************************************************************************)
\* the dots (k, c) that are delivered here and not yet stable here
PendingDots(e) ==
    UNION {{<<k, c>> : c \in (e.SV[k + 1] + 1) .. e.V[k + 1]} :
               k \in 0 .. (e.peer_number - 1)}

\* C36: vector-clock engine with stability tracking on: after every engine
\* step the key set of SMap is exactly the set of dots (k, c) with
\* SV[k] < c <= V[k]; updatestability never finds its key already present
\* and stabilize never looks up a missing key, so the engine never aborts.
C36_SMapKeys ==
    kind = "vv" =>
        \A p \in Peers :
            eng[p].track =>
                /\ ~eng[p].panic
                /\ DOMAIN eng[p].SMap = PendingDots(eng[p])

\* a peer has made dots stable and still holds other dots in SMap
C36_Witness ==
    /\ kind = "vv"
    /\ \E p \in Peers :
          /\ eng[p].track
          /\ ~eng[p].panic
          /\ DOMAIN eng[p].SMap # {}
          /\ \E k \in 1 .. n : eng[p].SV[k] >= 2

(***************************************************************************)
(* Monotonicity of the stability state (updatestability, calculateSV).     *)
(***************************************************************************)
\* component-wise a <= b for two vectors of the same length
VectorLeq(a, b) == \A i \in 1 .. Len(a) : a[i] <= b[i]

\* C37: vector-clock engine with stability tracking on: SV is component-wise
\* non-decreasing over every engine step, so the unsigned subtraction in dif
\* never underflows; every row of M is component-wise non-decreasing; and
\* SV[k] <= min over rows r of M[r][k] <= V[k] for every column k after
\* every step.
C37_StabilityMonotone ==
    [][kind = "vv" =>
          \A p \in Peers :
              eng[p].track =>
                  /\ VectorLeq(eng[p].SV, eng'[p].SV)
                  /\ ~eng'[p].underflow
                  /\ \A r \in 1 .. n : VectorLeq(eng[p].M[r], eng'[p].M[r])
                  /\ \A k \in 0 .. (n - 1) :
                         /\ eng'[p].SV[k + 1] <= ColumnMin(eng'[p], k)
                         /\ ColumnMin(eng'[p], k) <= eng'[p].V[k + 1]]_vars

\* a peer whose stable vector has advanced in two columns and lies strictly
\* below its own vector somewhere
C37_Witness ==
    /\ kind = "vv"
    /\ \E p \in Peers :
          /\ eng[p].track
          /\ ~eng[p].panic
          /\ Cardinality({k \in 1 .. n : eng[p].SV[k] >= 1}) >= 2
          /\ \E k \in 1 .. n : eng[p].SV[k] < eng[p].V[k]

(***************************************************************************)
(* Lookups of the graph engine that abort when the entry is missing        *)
(* (graph.rs dequeue, deletestable; dag.rs remove).                        *)
(***************************************************************************)
\* the head of p's client queue is taken by its dispatcher in this step
TakesClientEvent(p) == mq[p] # <<>> /\ mq'[p] = Tail(mq[p])

\* no index is on the free-slot stack twice
FreeStackDistinct(e) ==
    \A i, k \in 1 .. Len(e.G.available_indexes) :
        i # k => e.G.available_indexes[i] # e.G.available_indexes[k]

\* C38: graph engine, sends built by the client facade and every Stable
\* notification acknowledged at most once: no engine step aborts on a
\* missing entry.  dequeue finds every non-stable context dot in the
\* dot-to-index map, deletestable finds its dot, and the slot that
\* ArrayMap.remove frees is occupied, in every interleaving.
C38_NoMissingEntry ==
    [][kind = "graph" =>
          \A p \in Peers :
              /\ ~eng'[p].panic
              /\ FreeStackDistinct(eng'[p])
              /\ (TakesClientEvent(p) /\ mq[p][1].type = "Stable") =>
                     /\ mq[p][1].dot \in DOMAIN eng[p].dot_to_index_map
                     /\ eng[p].dot_to_index_map[mq[p][1].dot]
                            \notin SeqToSet(eng[p].G.available_indexes)
              /\ (TakesClientEvent(p) /\ mq[p][1].type = "Client"
                      /\ eng[p].track) =>
                     \A i \in 1 .. Len(mq[p][1].context) :
                         LET d == mq[p][1].context[i] IN
                         d \in DOMAIN eng[p].dot_to_index_map
                             \/ d[2] <= eng[p].V[d[1] + 1]]_vars

\* a dispatcher with tracking on has removed a dot on the client's
\* acknowledgement and has another acknowledgement waiting in its queue
C38_Witness ==
    /\ kind = "graph"
    /\ \E p \in Peers :
          /\ eng[p].track
          /\ ~eng[p].panic
          /\ RemovedDots(p) # {}
          /\ mq[p] # <<>>
          /\ mq[p][1].type = "Stable"

(***************************************************************************)
(* The arena of the graph engine with stability tracking off.              *)
(***************************************************************************)
\* every dot sent by another peer has been handed to the engine of p
AllReceived(p) ==
    \A d \in DOMAIN sent : d[1] # p => sent[d].msg \in Received(p, d[1])

\* no two dots of the dot-to-index map share an index
MapInjective(e) ==
    \A a, b \in DOMAIN e.dot_to_index_map :
        e.dot_to_index_map[a] = e.dot_to_index_map[b] => a = b

\* C39: graph engine with stability tracking off: a node is removed in the
\* step in which it is delivered; once every sent dot has been received at
\* a peer, its arena holds no live node and its dot-to-index map is empty;
\* the map is always injective and no index in its range is on the
\* free-slot stack.
C39_ArenaWithoutTracking ==
    kind = "graph" =>
        \A p \in Peers :
            ~eng[p].track =>
                /\ ~eng[p].panic
                /\ DeliveredAt(p) \cap LiveDots(p) = {}
                /\ AllReceived(p) =>
                       /\ LiveNodes(eng[p]) = 0
                       /\ LiveDots(p) = {}
                /\ MapInjective(eng[p])
                /\ LiveIndexes(eng[p])
                       \cap SeqToSet(eng[p].G.available_indexes) = {}

\* with tracking off a peer has delivered a dot and holds the node of a
\* message whose predecessor it has not been handed yet
C39_Witness ==
    /\ kind = "graph"
    /\ \E p \in Peers :
          /\ ~eng[p].track
          /\ ~eng[p].panic
          /\ DeliveredAt(p) # {}
          /\ Cardinality(LiveDots(p)) >= 2

(***************************************************************************)
(* The per-message barrier of the peer-senders (sender.rs,                 *)
(* middleware_thread.rs handle_message_from_client).  Broadcast m is the   *)
(* m-th Client event the dispatcher handled.                               *)
(***************************************************************************)
\* the threads the barrier is about: the client's send() and end(), the
\* dispatcher and the peer-senders, none of which fails
NextBarrier ==
    \/ EndClientSend
    \/ EndCall
    \/ DispatcherStep
    \/ DispatcherDrop
    \/ \E k \in Remote : SenderRecv(k)
    \/ \E k \in Remote : SenderWriteMessage(k)
    \/ \E k \in Remote : SenderClose(k)

SpecBarrier == InitEnd /\ [][NextBarrier]_vars

\* the dispatcher and every sender thread are eventually scheduled
FairBarrier ==
    /\ SpecBarrier
    /\ WF_vars(DispatcherStep)
    /\ WF_vars(DispatcherDrop)
    /\ \A k \in 1 .. (MaxPeers - 1) :
          /\ WF_vars(SenderRecv(k))
          /\ WF_vars(SenderWriteMessage(k))
          /\ WF_vars(SenderClose(k))

\* the broadcasts written to the stream towards k, in stream order
Written(k) ==
    [i \in 1 .. Len(SelectSeq(lc.stream[k], LAMBDA env : env # Close)) |->
        SelectSeq(lc.stream[k], LAMBDA env : env # Close)[i].msg]

\* C40: at each peer no peer-sender writes broadcast m to its stream before
\* all N-1 peer-senders of that peer have dequeued broadcast m from their
\* channels; while all N-1 peer-senders are alive the per-message barrier
\* never blocks a sender for ever, and every broadcast is eventually
\* written to every stream, in the order in which the dispatcher handled
\* the Client events.
C40_BarrierPerMessage ==
    /\ [](\A k \in Remote :
             /\ \A i \in 1 .. Len(Written(k)) :
                    /\ lc.arr[Written(k)[i]] = Remote
                    /\ \A j \in Remote :
                           Written(k)[i] \notin SeqToSet(lc.chan[j])
             /\ Written(k) = [i \in 1 .. Len(Written(k)) |-> i])
    /\ \A k \in 1 .. (MaxPeers - 1) :
          (lc.snd[k] = "barrier") ~> (lc.snd[k] # "barrier")
    /\ \A k \in 1 .. (MaxPeers - 1), m \in 1 .. MaxEndSends :
          (lc.sends >= m) ~> (Len(Written(k)) >= m)

\* a sender that has written a broadcast waits at the barrier of the next
\* one, which another sender has not yet taken from its channel
C40_Witness ==
    /\ lc # Parked
    /\ \E k \in Remote :
          /\ lc.snd[k] = "barrier"
          /\ ~BarrierOpen(lc.held[k])
          /\ Len(Written(k)) >= 1
          /\ \E j \in Remote : lc.held[k] \in SeqToSet(lc.chan[j])

====
